---- MODULE Spec2Model ----
(***************************************************************************)
(* Model of the SA-UnitTestHelper single-header unit test library.         *)
(*                                                                         *)
(*   UnitTestHelper.hpp     the current header: Counter, Group (stack of   *)
(*                          nested groups), Intl::Update / ComputeTitle /  *)
(*                          ComputeParam / ComputeResult, Intl::Exit.      *)
(*   SA-UnitTestHelper.hpp  the earlier header: Internal::GroupBegin /     *)
(*                          GroupEnd / GroupUpdate / ComputeResult.        *)
(*                                                                         *)
(* Specifications:                                                         *)
(*   Spec         a test program driving UnitTestHelper.hpp                *)
(*   SpecMisuse   Spec plus SA_UTH_GPE() called with no group open         *)
(*   SpecSa       a test program driving SA-UnitTestHelper.hpp             *)
(*   SpecCounter  the Counter value operations applied to bounded inputs   *)
(***************************************************************************)
EXTENDS Integers, Sequences, FiniteSets, TLC

\* ------------------------------------------------------------------------
\* Bounds of the model.
\* ------------------------------------------------------------------------
\* Assertions recorded in one run.
MaxAsserts == 3
\* Groups begun in one run.
MaxBegins == 3
\* Largest field value of the counters handed to the Counter operations.
MaxCount == 2
MaxVal == 2
MaxSize == 3
MaxElem == 1
\* the most arguments one assertion hands to Intl::ComputeParam
MaxParams == 2
\* the threads that record assertions
NThreads == 2

\* ------------------------------------------------------------------------
\* Program constants.
\* ------------------------------------------------------------------------
EXIT_SUCCESS == 0
EXIT_FAILURE == 1

\* enum Verbosity
None == 0
Success == 1
ParamsName == 2
ParamsFailure == 4
ParamsSuccess == 8
GroupStart == 16
GroupExit == 32
GroupCount == 64
Light == ParamsName + ParamsFailure + GroupExit
Default == Success + ParamsName + ParamsFailure + GroupStart + GroupExit + GroupCount
Max == 255

\* verbosity & flag, for a single-bit flag
HasFlag(v, flag) == (v \div flag) % 2 = 1

\* The verbosity values, callback installations and group names a test
\* program of the model uses.
VerbositySet == {None, ParamsSuccess, Default, Max}
AllCB == {"GroupBeginCB", "GroupEndCB", "TitleCB", "ParamsCB", "ResultCB"}
CallbackSets == {{}, AllCB}
\* The test program names the i-th group it begins GroupName(i).
GroupName(i) == << "G1", "G2", "G3", "G4", "G5", "G6", "G7", "G8" >>[i]

\* The builds of the model: SA_UTH_EXIT_ON_FAILURE, SA_UTH_DFLT_CSL_LOG and
\* SA_UTH_DFLT_FILE_LOG are set at compile time.
Builds ==
    { [exitOnFailure |-> FALSE, dfltCslLog |-> FALSE, dfltFileLog |-> FALSE],
      [exitOnFailure |-> FALSE, dfltCslLog |-> TRUE,  dfltFileLog |-> TRUE],
      [exitOnFailure |-> TRUE,  dfltCslLog |-> TRUE,  dfltFileLog |-> FALSE] }

VARIABLES
    \* ---- UnitTestHelper.hpp
    build,              \* the compile-time options of this run
    pc,                 \* "run", "exited" (Intl::Exit returned), "aborted" (::exit)
                        \* "crashed" / "ub" (SA_UTH_GPE() with no group open)
    exit,               \* Sa::UTH::exit
    exitRet,            \* value main returns from Intl::Exit or ::exit is called
                        \* with, -1 while the program runs
    verbosity,          \* Sa::UTH::verbosity
    bCslLog,            \* Sa::UTH::bCslLog
    bFileLog,           \* Sa::UTH::bFileLog
    callbacks,          \* the callback slots that are not nullptr
    globalCount,        \* Intl::globalCount
    sGroups,            \* Group::sGroups, bottom first
    groupGlobalCount,   \* Group::globalCount
    ret,                \* << the Group Group::End returned >> when the last operation
                        \* was Group::End, << >> otherwise
    out,                \* the sink calls made by the last operation, in order
    \* ---- observation of the run (not program state)
    recorded,           \* Counter of the predicates handed to the assertion macros
    nBegin,             \* Group::Begin calls so far
    nEnd,               \* Group::End calls that returned so far
    \* ---- a value operation applied to given arguments (SpecCounter)
    arg,                \* the arguments
    res                 \* the operation applied and what it returned

vars == << build, pc, exit, exitRet, verbosity, bCslLog, bFileLog, callbacks,
           globalCount, sGroups, groupGlobalCount, ret, out,
           recorded, nBegin, nEnd, arg, res >>

\* ------------------------------------------------------------------------
\* Counter (UnitTestHelper.hpp)
\* ------------------------------------------------------------------------
ZeroCounter == [success |-> 0, failure |-> 0]

\* Observation: the tally of predicates seen and the sum of two tallies,
\* written out here so that they do not rest on the code's Counter.
Tally(c, p) ==
    [success |-> c.success + (IF p THEN 1 ELSE 0),
     failure |-> c.failure + (IF p THEN 0 ELSE 1)]

TallySum(c, d) == [success |-> c.success + d.success, failure |-> c.failure + d.failure]

Counter_Total(c) == c.success + c.failure

\* A faulty Counter::Update: a failure takes a success back.
Counter_Update_Net(c, _pred) ==
    IF _pred THEN [c EXCEPT !.success = @ + 1]
             ELSE [c EXCEPT !.failure = @ + 1,
                            !.success = IF @ > 0 THEN @ - 1 ELSE @]

Counter_Update(c, _pred) ==
    IF _pred THEN [c EXCEPT !.success = @ + 1]
             ELSE [c EXCEPT !.failure = @ + 1]

\* A faulty operator+=: failure takes the other counter's success.
Counter_Add_Crossed(c, _rhs) ==
    [success |-> c.success + _rhs.success, failure |-> c.failure + _rhs.success]

\* Counter::operator+=
Counter_Add(c, _rhs) ==
    [success |-> c.success + _rhs.success, failure |-> c.failure + _rhs.failure]

Counter_IsEmpty(c) == c.success # 0 /\ c.failure # 0


\* ------------------------------------------------------------------------
\* Sinks: one record per call of a built-in log function or of a callback.
\* tabs is the indentation Group::LogTabs writes in front of a built-in line.
\* ------------------------------------------------------------------------
Ev(sink, tabs, text) == [sink |-> sink, tabs |-> tabs, text |-> text]

ResultStr(_pred) == IF _pred THEN "Success" ELSE "Failure"

ExitStr(code) == IF code = EXIT_SUCCESS THEN "EXIT_SUCCESS" ELSE "EXIT_FAILURE"

Intl_ShouldLog == bCslLog \/ bFileLog

\* ------------------------------------------------------------------------
\* Group (UnitTestHelper.hpp)
\*
\* A group carries the fields of class Group (name, localExit, count) and
\* four observation fields the code does not have: id, the rank of the
\* Group::Begin call that made it; own, the assertions recorded while it
\* was the innermost open group; kids, the sum of the counts its direct
\* children had when they ended; sawFail, whether an assertion failed while
\* it was open.
\* ------------------------------------------------------------------------
NewGroup(_name, id) ==
    [name |-> _name, localExit |-> EXIT_SUCCESS, count |-> ZeroCounter,
     id |-> id, own |-> ZeroCounter, kids |-> ZeroCounter, sawFail |-> FALSE]

\* A faulty top(): the oldest element instead of the newest.
StackTop_Oldest(stk) == stk[1]

\* std::stack<Group>: top(), pop(), push()
StackTop(stk) == stk[Len(stk)]

StackPop(stk) == SubSeq(stk, 1, Len(stk) - 1)

StackPush(stk, g) == Append(stk, g)

\* A faulty Group::Update: every open group takes the result.
Group_Update_AllOpen(stk, _pred) ==
    [i \in 1..Len(stk) |->
        [stk[i] EXCEPT !.count = Counter_Update(@, _pred),
                       !.localExit = IF ~_pred THEN EXIT_FAILURE ELSE @]]

\* A faulty Group::Update: with no group open, opens one to hold the result.
Group_Update_OpensGroup(stk, _pred) ==
    LET open == IF stk # << >> THEN stk ELSE << NewGroup("", 0) >>
    IN [open EXCEPT ![Len(open)] =
            [@ EXCEPT !.count = Counter_Update(@, _pred),
                      !.localExit = IF ~_pred THEN EXIT_FAILURE ELSE @]]

\* A faulty Group::Update: counts the result, leaves localExit alone.
Group_Update_KeepExit(stk, _pred) ==
    IF stk # << >>
    THEN [stk EXCEPT ![Len(stk)] = [@ EXCEPT !.count = Counter_Update(@, _pred)]]
    ELSE stk

Group_Update(stk, _pred) ==
    IF stk # << >>
    THEN [stk EXCEPT ![Len(stk)] =
            [@ EXCEPT !.count = Counter_Update(@, _pred),
                      !.localExit = IF ~_pred THEN EXIT_FAILURE ELSE @]]
    ELSE stk

\* A faulty Group::Spread: spreads localExit, not the counter.
Group_Spread_NoCount(group, _parent) ==
    [_parent EXCEPT
        !.localExit = IF group.localExit = EXIT_FAILURE THEN EXIT_FAILURE ELSE @]

\* A faulty Group::Spread: spreads the counter, not localExit.
Group_Spread_NoExit(group, _parent) ==
    [_parent EXCEPT !.count = Counter_Add(@, group.count)]

\* A faulty Spread: the child's count is added twice.
Group_Spread_CountTwice(group, _parent) ==
    [_parent EXCEPT
        !.localExit = IF group.localExit = EXIT_FAILURE THEN EXIT_FAILURE ELSE @,
        !.count = Counter_Add(Counter_Add(@, group.count), group.count)]

\* A faulty Spread: the parent fails whenever a child is ended.
Group_Spread_AlwaysFails(group, _parent) ==
    [_parent EXCEPT !.localExit = EXIT_FAILURE, !.count = Counter_Add(@, group.count)]

Group_Spread(group, _parent) ==
    [_parent EXCEPT
        !.localExit = IF group.localExit = EXIT_FAILURE THEN EXIT_FAILURE ELSE @,
        !.count = Counter_Add(@, group.count)]

\* Observation of an assertion: own of the innermost group, sawFail of every
\* open group.
ObserveAssert(stk, _pred) ==
    [i \in 1..Len(stk) |->
        [stk[i] EXCEPT !.own = IF i = Len(stk) THEN Tally(@, _pred) ELSE @,
                       !.sawFail = @ \/ ~_pred]]

\* Observation of a child's end, on its parent.
ObserveChild(_parent, group) ==
    [_parent EXCEPT !.kids = TallySum(@, group.count)]

Group_BeginLog(_name) == << Ev("BeginLog", Len(sGroups), _name) >>

Group_EndLog(group, depth) == << Ev("EndLog", depth, ExitStr(group.localExit)) >>

\* ------------------------------------------------------------------------
\* Intl (UnitTestHelper.hpp)
\* ------------------------------------------------------------------------
\* A faulty ShouldComputeTest: computes a test only when a built-in log is on.
Intl_ShouldComputeTest_NeedsLog(_pred) ==
    Intl_ShouldLog /\ (~_pred \/ HasFlag(verbosity, Success))

\* A faulty ShouldComputeTest: computes every test.
Intl_ShouldComputeTest_Always(_pred) == TRUE

\* A faulty ShouldComputeTest: follows the Success flag for failures too.
Intl_ShouldComputeTest_SuccessOnly(_pred) == HasFlag(verbosity, Success)

Intl_ShouldComputeTest(_pred) == ~_pred \/ HasFlag(verbosity, Success)

\* A faulty ComputeTitle: a TitleCB takes the place of the built-in log.
Intl_ComputeTitle_Either(_pred) ==
    IF "TitleCB" \in callbacks
    THEN << Ev("TitleCB", 0, ResultStr(_pred)) >>
    ELSE IF Intl_ShouldLog
         THEN << Ev("TitleLog", Len(sGroups), ResultStr(_pred)) >>
         ELSE << >>

Intl_ComputeTitle(_pred) ==
    (IF Intl_ShouldLog THEN << Ev("TitleLog", Len(sGroups), ResultStr(_pred)) >> ELSE << >>)
    \o (IF "TitleCB" \in callbacks THEN << Ev("TitleCB", 0, ResultStr(_pred)) >> ELSE << >>)

\* Param::Log writes through the log macros, which test bCslLog and bFileLog.
\* _str tells whether ToString gave the arguments a debug string.  A name
\* (SA_UTH_LOG(it->name << ':')) and a value (SA_UTH_LOG(IndentStr(it->value)))
\* are lines of their own behind LogTabs(); the warning written for an empty
\* value goes through __SA_UTH_LOG_IN, with no LogTabs() before it and no end
\* of line after it.  tabs is the indentation of the value or warning entries.
Param_Log(_str) ==
    IF Intl_ShouldLog
    THEN << Ev("ParamsLog", IF _str THEN Len(sGroups) ELSE 0,
               IF HasFlag(verbosity, ParamsName)
               THEN (IF _str THEN "names+values" ELSE "names+warnings")
               ELSE (IF _str THEN "values" ELSE "warnings")) >>
    ELSE << >>

\* A faulty ComputeParam: either params flag lets the params out, whatever
\* the result.
Intl_ComputeParam_AnyFlag(_pred, _str) ==
    IF ~Intl_ShouldLog /\ "ParamsCB" \notin callbacks
    THEN << >>
    ELSE IF HasFlag(verbosity, ParamsSuccess) \/ HasFlag(verbosity, ParamsFailure)
         THEN Param_Log(_str)
              \o (IF "ParamsCB" \in callbacks THEN << Ev("ParamsCB", 0, "params") >> ELSE << >>)
         ELSE << >>

Intl_ComputeParam(_pred, _str) ==
    IF ~Intl_ShouldLog /\ "ParamsCB" \notin callbacks
    THEN << >>
    ELSE IF (_pred /\ HasFlag(verbosity, ParamsSuccess))
            \/ (~_pred /\ HasFlag(verbosity, ParamsFailure))
         THEN Param_Log(_str)
              \o (IF "ParamsCB" \in callbacks THEN << Ev("ParamsCB", 0, "params") >> ELSE << >>)
         ELSE << >>

\* Intl::ComputeResult: the new value of Sa::UTH::exit, the ResultCB call and
\* whether ::exit(EXIT_FAILURE) is called.
\* A faulty ComputeResult: every result overwrites Sa::UTH::exit.
Intl_ComputeResult_exit_Overwrite(_exit, _pred) ==
    IF ~_pred THEN EXIT_FAILURE ELSE EXIT_SUCCESS

\* A faulty ComputeResult: exit is never written.
Intl_ComputeResult_exit_Never(_exit, _pred) == _exit

Intl_ComputeResult_exit(_exit, _pred) == IF ~_pred THEN EXIT_FAILURE ELSE _exit

\* A faulty ComputeResult: calls ResultCB a second time.
Intl_ComputeResult_out_Twice(_pred) ==
    IF "ResultCB" \in callbacks
    THEN << Ev("ResultCB", 0, ResultStr(_pred)), Ev("ResultCB", 0, ResultStr(_pred)) >>
    ELSE << >>

Intl_ComputeResult_out(_pred) ==
    IF "ResultCB" \in callbacks THEN << Ev("ResultCB", 0, ResultStr(_pred)) >> ELSE << >>

\* A faulty ComputeResult: the build option is not looked at.
Intl_ComputeResult_abort_Never(_pred) == FALSE

Intl_ComputeResult_abort(_pred) == build.exitOnFailure /\ ~_pred


\* ------------------------------------------------------------------------
\* The test program driving UnitTestHelper.hpp
\* ------------------------------------------------------------------------
ProgramStart(b, v) ==
    /\ build = b
    /\ pc = "run"
    /\ exit = EXIT_SUCCESS
    /\ exitRet = -1
    /\ verbosity = v
    /\ bCslLog = build.dfltCslLog
    /\ bFileLog = build.dfltFileLog
    /\ callbacks = {}
    /\ globalCount = ZeroCounter
    /\ sGroups = << >>
    /\ groupGlobalCount = ZeroCounter
    /\ ret = << >>
    /\ out = << >>
    /\ recorded = ZeroCounter
    /\ nBegin = 0
    /\ nEnd = 0

\* No value operation is applied in a run of the test program.
NoOperation ==
    /\ arg = << >>
    /\ res = [op |-> "none"]

Init ==
    /\ \E b \in Builds : ProgramStart(b, Default)
    /\ NoOperation

\* UTH::verbosity = v;
SetVerbosity(v) ==
    /\ pc = "run"
    /\ v # verbosity
    /\ verbosity' = v
    /\ out' = << >>
    /\ ret' = << >>
    /\ UNCHANGED << arg, res, build, pc, exit, exitRet, bCslLog, bFileLog, callbacks, globalCount,
                    sGroups, groupGlobalCount, recorded, nBegin, nEnd >>

\* UTH::bCslLog = csl; UTH::bFileLog = file;
SetLog(csl, file) ==
    /\ pc = "run"
    /\ << csl, file >> # << bCslLog, bFileLog >>
    /\ bCslLog' = csl
    /\ bFileLog' = file
    /\ out' = << >>
    /\ ret' = << >>
    /\ UNCHANGED << arg, res, build, pc, exit, exitRet, verbosity, callbacks, globalCount,
                    sGroups, groupGlobalCount, recorded, nBegin, nEnd >>

\* UTH::GroupBeginCB = ...; ... UTH::ResultCB = ...;
SetCallbacks(cbs) ==
    /\ pc = "run"
    /\ cbs # callbacks
    /\ callbacks' = cbs
    /\ out' = << >>
    /\ ret' = << >>
    /\ UNCHANGED << arg, res, build, pc, exit, exitRet, verbosity, bCslLog, bFileLog, globalCount,
                    sGroups, groupGlobalCount, recorded, nBegin, nEnd >>

\* One assertion macro (SA_UTH_EQ, SA_UTH_SF, SA_UTH_RSF, SA_UTH_MF, SA_UTH_RMF,
\* SA_UTH_OP, SA_UTH_ROP) whose predicate evaluates to _pred, and whose
\* arguments have a debug string iff _str:
\*   Intl::Update(bRes);
\*   if (Intl::ShouldComputeTest(bRes)) { ComputeTitle; ComputeParam; ComputeResult; }
Assertion(_pred, _str) ==
    /\ pc = "run"
    /\ Counter_Total(recorded) < MaxAsserts
    /\ recorded' = Tally(recorded, _pred)
    \* Intl::Update
    /\ globalCount' = Counter_Update(globalCount, _pred)
    /\ sGroups' = ObserveAssert(Group_Update(sGroups, _pred), _pred)
    /\ IF Intl_ShouldComputeTest(_pred)
       THEN /\ out' = Intl_ComputeTitle(_pred) \o Intl_ComputeParam(_pred, _str)
                      \o Intl_ComputeResult_out(_pred)
            /\ exit' = Intl_ComputeResult_exit(exit, _pred)
            \* ::exit(EXIT_FAILURE)
            /\ pc' = IF Intl_ComputeResult_abort(_pred) THEN "aborted" ELSE pc
            /\ exitRet' = IF Intl_ComputeResult_abort(_pred) THEN EXIT_FAILURE ELSE exitRet
       ELSE /\ out' = << >>
            /\ UNCHANGED << exit, pc, exitRet >>
    /\ ret' = << >>
    /\ UNCHANGED << build, verbosity, bCslLog, bFileLog, callbacks,
                    groupGlobalCount, nBegin, nEnd >>

\* An assertion of the test program; the operands are not followed.
Test(_pred, _str) ==
    /\ Assertion(_pred, _str)
    /\ UNCHANGED << arg, res >>

\* SA_UTH_GPB(_name)
\* A faulty Begin: GroupBeginCB is called only when the group line is logged.
Group_Begin_out_GatedCB(_name) ==
    IF HasFlag(verbosity, GroupStart) /\ Intl_ShouldLog
    THEN Group_BeginLog(_name)
         \o (IF "GroupBeginCB" \in callbacks
             THEN << Ev("GroupBeginCB", 0, _name) >> ELSE << >>)
    ELSE << >>

\* What Group::Begin(_name) emits: the group line before the push, under
\* GroupStart with a log on, and GroupBeginCB(_name) after it, when set.
Group_Begin_out(_name) ==
    (IF HasFlag(verbosity, GroupStart) /\ Intl_ShouldLog
     THEN Group_BeginLog(_name) ELSE << >>)
    \o (IF "GroupBeginCB" \in callbacks
        THEN << Ev("GroupBeginCB", 0, _name) >> ELSE << >>)

Group_Begin(_name) ==
    /\ pc = "run"
    /\ nBegin < MaxBegins
    /\ _name = GroupName(nBegin + 1)
    /\ sGroups' = StackPush(sGroups, NewGroup(_name, nBegin + 1))
    /\ out' = Group_Begin_out(_name)
    /\ nBegin' = nBegin + 1
    /\ ret' = << >>
    /\ UNCHANGED << arg, res, build, pc, exit, exitRet, verbosity, bCslLog, bFileLog, callbacks,
                    globalCount, groupGlobalCount, recorded, nEnd >>

\* A faulty tally: merges the group's assertions into Group::globalCount.
Group_End_globalCount_Merge(group) == Counter_Add(groupGlobalCount, group.count)

\* globalCount.Update(group.localExit == EXIT_SUCCESS) of Group::End
Group_End_globalCount(group) ==
    Counter_Update(groupGlobalCount, group.localExit = EXIT_SUCCESS)

\* SA_UTH_GPE() with a group open
Group_End ==
    /\ pc = "run"
    /\ sGroups # << >>
    /\ LET group == StackTop(sGroups)
           rest == StackPop(sGroups)
       IN /\ sGroups' = IF rest # << >>
                        THEN [rest EXCEPT ![Len(rest)] =
                                ObserveChild(Group_Spread(group, @), group)]
                        ELSE rest
          /\ out' = (IF HasFlag(verbosity, GroupExit) /\ Intl_ShouldLog
                     THEN Group_EndLog(group, Len(rest)) ELSE << >>)
                    \o (IF "GroupEndCB" \in callbacks
                        THEN << Ev("GroupEndCB", 0, ExitStr(group.localExit)) >>
                        ELSE << >>)
          /\ groupGlobalCount' = Group_End_globalCount(group)
          /\ ret' = << group >>
    /\ nEnd' = nEnd + 1
    /\ UNCHANGED << arg, res, build, pc, exit, exitRet, verbosity, bCslLog, bFileLog, callbacks,
                    globalCount, recorded, nBegin >>

\* SA_UTH_EXIT(): return Sa::UTH::Intl::Exit();
\* Whether the summary of Intl::Exit is written: the log macros read bCslLog
\* and bFileLog, which Exit has just set to SA_UTH_DFLT_CSL_LOG and
\* SA_UTH_DFLT_FILE_LOG.
\* A faulty Exit: the summary follows the toggles the program left.
Intl_Exit_ShouldLog_Runtime == bCslLog \/ bFileLog

Intl_Exit_ShouldLog == build.dfltCslLog \/ build.dfltFileLog

Intl_Exit ==
    /\ pc = "run"
    /\ bCslLog' = build.dfltCslLog
    /\ bFileLog' = build.dfltFileLog
    /\ out' = IF Intl_Exit_ShouldLog
              THEN << Ev("ExitLog", 0,
                         IF HasFlag(verbosity, GroupCount)
                            /\ ~Counter_IsEmpty(groupGlobalCount)
                         THEN "run in groups" ELSE "run") >>
              ELSE << >>
    /\ exitRet' = exit
    /\ pc' = "exited"
    /\ ret' = << >>
    /\ UNCHANGED << arg, res, build, exit, verbosity, callbacks, globalCount, sGroups,
                    groupGlobalCount, recorded, nBegin, nEnd >>

Next ==
    \/ \E v \in VerbositySet : SetVerbosity(v)
    \/ \E csl \in BOOLEAN, file \in BOOLEAN : SetLog(csl, file)
    \/ \E cbs \in CallbackSets : SetCallbacks(cbs)
    \/ \E _pred \in BOOLEAN, _str \in BOOLEAN : Test(_pred, _str)
    \/ \E _name \in {GroupName(i) : i \in 1..MaxBegins} : Group_Begin(_name)
    \/ Group_End
    \/ Intl_Exit

Spec == Init /\ [][Next]_vars


\* ------------------------------------------------------------------------
\* SA_UTH_GPE() with no group open.  Group::End calls sGroups.top() and
\* sGroups.pop() without testing sGroups.empty(): on an empty std::stack both
\* are undefined behaviour.  The build either traps in top() (a hardened
\* standard library, a fault on the read) or reads a Group out of whatever
\* memory lies before the deque's storage and carries on with it.  The model
\* follows the run no further than that call.
\* ------------------------------------------------------------------------
GarbageGroups ==
    { [name |-> "?", localExit |-> e, count |-> ZeroCounter,
       id |-> 0, own |-> ZeroCounter, kids |-> ZeroCounter, sawFail |-> FALSE]
      : e \in {EXIT_SUCCESS, EXIT_FAILURE} }

Group_End_Empty ==
    /\ pc = "run"
    /\ sGroups = << >>
    /\ \/ /\ pc' = "crashed"
          /\ out' = << >>
          /\ ret' = << >>
          /\ UNCHANGED groupGlobalCount
       \/ \E group \in GarbageGroups :
            /\ pc' = "ub"
            /\ out' = (IF HasFlag(verbosity, GroupExit) /\ Intl_ShouldLog
                       THEN Group_EndLog(group, 0) ELSE << >>)
                      \o (IF "GroupEndCB" \in callbacks
                          THEN << Ev("GroupEndCB", 0, ExitStr(group.localExit)) >>
                          ELSE << >>)
            /\ groupGlobalCount' = Group_End_globalCount(group)
            /\ ret' = << group >>
    /\ UNCHANGED << arg, res, build, exit, exitRet, verbosity, bCslLog, bFileLog,
                    callbacks, globalCount, sGroups, recorded, nBegin, nEnd >>

NextMisuse ==
    \/ Next
    \/ Group_End_Empty

SpecMisuse == Init /\ [][NextMisuse]_vars


\* ------------------------------------------------------------------------
\* SpecCounter: the Counter operations as functions of their operands.  The
\* fields are unsigned int; the operands here stay far below 2^32, so no sum
\* wraps.
\* ------------------------------------------------------------------------
Counters == [success : 0..MaxCount, failure : 0..MaxCount]

InitCounter ==
    /\ ProgramStart([exitOnFailure |-> FALSE, dfltCslLog |-> FALSE, dfltFileLog |-> FALSE],
                    Default)
    /\ arg \in [a : Counters, b : Counters, c : Counters]
    /\ res = [op |-> "none"]

\* a.IsEmpty()
Apply_IsEmpty ==
    /\ res.op = "none"
    /\ res' = [op |-> "IsEmpty", value |-> Counter_IsEmpty(arg.a)]
    /\ UNCHANGED << arg, build, pc, exit, exitRet, verbosity, bCslLog, bFileLog, callbacks,
                    globalCount, sGroups, groupGlobalCount, ret, out, recorded, nBegin, nEnd >>

\* a.Total()
Apply_Total ==
    /\ res.op = "none"
    /\ res' = [op |-> "Total", value |-> Counter_Total(arg.a)]
    /\ UNCHANGED << arg, build, pc, exit, exitRet, verbosity, bCslLog, bFileLog, callbacks,
                    globalCount, sGroups, groupGlobalCount, ret, out, recorded, nBegin, nEnd >>

\* a.Update(_pred)
Apply_Update(_pred) ==
    /\ res.op = "none"
    /\ res' = [op |-> "Update", pred |-> _pred, value |-> Counter_Update(arg.a, _pred)]
    /\ UNCHANGED << arg, build, pc, exit, exitRet, verbosity, bCslLog, bFileLog, callbacks,
                    globalCount, sGroups, groupGlobalCount, ret, out, recorded, nBegin, nEnd >>

\* operator+= in the groupings the algebraic laws speak of:
\*   a += b;  b += a;  (a += b) += c;  a += (b += c);  a += {0,0};  {0,0} += a
Apply_Add ==
    /\ res.op = "none"
    /\ res' = [op |-> "+=",
               ab |-> Counter_Add(arg.a, arg.b),
               ba |-> Counter_Add(arg.b, arg.a),
               ab_c |-> Counter_Add(Counter_Add(arg.a, arg.b), arg.c),
               a_bc |-> Counter_Add(arg.a, Counter_Add(arg.b, arg.c)),
               a0 |-> Counter_Add(arg.a, ZeroCounter),
               za |-> Counter_Add(ZeroCounter, arg.a)]
    /\ UNCHANGED << arg, build, pc, exit, exitRet, verbosity, bCslLog, bFileLog, callbacks,
                    globalCount, sGroups, groupGlobalCount, ret, out, recorded, nBegin, nEnd >>

NextCounter ==
    \/ Apply_IsEmpty
    \/ Apply_Total
    \/ \E _pred \in BOOLEAN : Apply_Update(_pred)
    \/ Apply_Add

SpecCounter == InitCounter /\ [][NextCounter]_vars

\* ------------------------------------------------------------------------
\* SpecSa: a test program driving SA-UnitTestHelper.hpp, the earlier header.
\* Its globals have the names of the later header's (Sa::UTH::exit,
\* verbosity, bCslLog, the callback slots) and are held in the same
\* variables; sGroups holds Internal::groups.  The header has no file log
\* and no counters: bFileLog, globalCount and groupGlobalCount stay as they
\* start.  A Group has a name and a localExit only.
\* ------------------------------------------------------------------------
Sa_InitialVerbosity == Success + ParamsName + ParamsFailure

Sa_VerbositySet == {None, Sa_InitialVerbosity, Max}

Sa_NewGroup(_name, id) ==
    [name |-> _name, localExit |-> EXIT_SUCCESS, id |-> id, sawFail |-> FALSE]

\* Observation of an assertion: sawFail of every open group.
Sa_ObserveAssert(stk, _pred) ==
    [i \in 1..Len(stk) |-> [stk[i] EXCEPT !.sawFail = @ \/ ~_pred]]

Internal_GroupUpdate(stk, _pred) ==
    IF stk # << >>
    THEN IF ~_pred
         THEN [stk EXCEPT ![Len(stk)] = [@ EXCEPT !.localExit = EXIT_FAILURE]]
         ELSE stk
    ELSE stk

Internal_ShouldComputeTest(_pred) == ~_pred \/ HasFlag(verbosity, Success)

Internal_ComputeTitleStr ==
    (IF bCslLog THEN << Ev("TitleCslLog", 0, "title") >> ELSE << >>)
    \o (IF "TitleCB" \in callbacks THEN << Ev("TitleCB", 0, "title") >> ELSE << >>)

Internal_ComputeParamStr(_pred) ==
    IF ~bCslLog /\ "ParamsCB" \notin callbacks
    THEN << >>
    ELSE IF (_pred /\ HasFlag(verbosity, ParamsSuccess))
            \/ (~_pred /\ HasFlag(verbosity, ParamsFailure))
         THEN (IF bCslLog THEN << Ev("ParamsCslLog", 0, "names+values") >> ELSE << >>)
              \o (IF "ParamsCB" \in callbacks THEN << Ev("ParamsCB", 0, "params") >> ELSE << >>)
         ELSE << >>

\* Internal::ComputeResult: the new value of Sa::UTH::exit, the sink calls
\* and whether ::exit(EXIT_FAILURE) is called.
Internal_ComputeResult_exit(_pred) == IF _pred THEN EXIT_SUCCESS ELSE EXIT_FAILURE

Internal_ComputeResult_out(_pred) ==
    (IF bCslLog THEN << Ev("ResultCslLog", 0, ResultStr(_pred)) >> ELSE << >>)
    \o (IF "ResultCB" \in callbacks THEN << Ev("ResultCB", 0, ResultStr(_pred)) >> ELSE << >>)

Internal_ComputeResult_abort(_pred) == build.exitOnFailure /\ ~_pred

InitSa ==
    /\ \E b \in Builds : ~b.dfltFileLog /\ ProgramStart(b, Sa_InitialVerbosity)
    /\ NoOperation

\* UTH::verbosity = v;
Sa_SetVerbosity(v) ==
    /\ pc = "run"
    /\ v # verbosity
    /\ verbosity' = v
    /\ out' = << >>
    /\ ret' = << >>
    /\ UNCHANGED << arg, res, build, pc, exit, exitRet, bCslLog, bFileLog, callbacks,
                    globalCount, sGroups, groupGlobalCount, recorded, nBegin, nEnd >>

\* UTH::bCslLog = csl;
Sa_SetLog(csl) ==
    /\ pc = "run"
    /\ csl # bCslLog
    /\ bCslLog' = csl
    /\ out' = << >>
    /\ ret' = << >>
    /\ UNCHANGED << arg, res, build, pc, exit, exitRet, verbosity, bFileLog, callbacks,
                    globalCount, sGroups, groupGlobalCount, recorded, nBegin, nEnd >>

\* UTH::GroupBeginCB = ...; ... UTH::ResultCB = ...;
Sa_SetCallbacks(cbs) ==
    /\ pc = "run"
    /\ cbs # callbacks
    /\ callbacks' = cbs
    /\ out' = << >>
    /\ ret' = << >>
    /\ UNCHANGED << arg, res, build, pc, exit, exitRet, verbosity, bCslLog, bFileLog,
                    globalCount, sGroups, groupGlobalCount, recorded, nBegin, nEnd >>

\* One assertion macro (SA_UTH_EQUALS, SA_UTH_SFUNC, SA_UTH_MFUNC, SA_UTH_OP)
\* whose predicate evaluates to _pred:
\*   GroupUpdate(bRes);
\*   if (ShouldComputeTest(bRes)) { ComputeTitleStr; ComputeParamStr; ComputeResult; }
Sa_Test(_pred) ==
    /\ pc = "run"
    /\ Counter_Total(recorded) < MaxAsserts
    /\ recorded' = Tally(recorded, _pred)
    /\ sGroups' = Sa_ObserveAssert(Internal_GroupUpdate(sGroups, _pred), _pred)
    /\ IF Internal_ShouldComputeTest(_pred)
       THEN /\ out' = Internal_ComputeTitleStr \o Internal_ComputeParamStr(_pred)
                      \o Internal_ComputeResult_out(_pred)
            /\ exit' = Internal_ComputeResult_exit(_pred)
            \* ::exit(EXIT_FAILURE)
            /\ pc' = IF Internal_ComputeResult_abort(_pred) THEN "aborted" ELSE pc
            /\ exitRet' = IF Internal_ComputeResult_abort(_pred) THEN EXIT_FAILURE ELSE exitRet
       ELSE /\ out' = << >>
            /\ UNCHANGED << exit, pc, exitRet >>
    /\ ret' = << >>
    /\ UNCHANGED << arg, res, build, verbosity, bCslLog, bFileLog, callbacks,
                    globalCount, groupGlobalCount, nBegin, nEnd >>

\* SA_UTH_GROUP_BEGIN(_name)
Internal_GroupBegin(_name) ==
    /\ pc = "run"
    /\ nBegin < MaxBegins
    /\ _name = GroupName(nBegin + 1)
    /\ sGroups' = StackPush(sGroups, Sa_NewGroup(_name, nBegin + 1))
    /\ out' = (IF bCslLog THEN << Ev("GroupBeginCslLog", 0, _name) >> ELSE << >>)
              \o (IF "GroupBeginCB" \in callbacks
                  THEN << Ev("GroupBeginCB", 0, _name) >> ELSE << >>)
    /\ nBegin' = nBegin + 1
    /\ ret' = << >>
    /\ UNCHANGED << arg, res, build, pc, exit, exitRet, verbosity, bCslLog, bFileLog,
                    callbacks, globalCount, groupGlobalCount, recorded, nEnd >>

\* Internal::groups after GroupEnd: groups.pop() and nothing else.
\* A faulty GroupEnd: the localExit of the ended group is spread to the new
\* top, as Group::End of the later header does.
Internal_GroupEnd_groups_Spread(stk) ==
    IF Len(stk) > 1 /\ StackTop(stk).localExit = EXIT_FAILURE
    THEN [StackPop(stk) EXCEPT ![Len(stk) - 1].localExit = EXIT_FAILURE]
    ELSE StackPop(stk)

Internal_GroupEnd_groups(stk) == StackPop(stk)

\* SA_UTH_GROUP_END() with a group open
Internal_GroupEnd ==
    /\ pc = "run"
    /\ sGroups # << >>
    /\ LET group == StackTop(sGroups)
       IN /\ sGroups' = Internal_GroupEnd_groups(sGroups)
          /\ out' = (IF bCslLog
                     THEN << Ev("GroupEndCslLog", 0, ExitStr(group.localExit)) >>
                     ELSE << >>)
                    \o (IF "GroupEndCB" \in callbacks
                        THEN << Ev("GroupEndCB", 0, ExitStr(group.localExit)) >>
                        ELSE << >>)
          /\ ret' = << group >>
    /\ nEnd' = nEnd + 1
    /\ UNCHANGED << arg, res, build, pc, exit, exitRet, verbosity, bCslLog, bFileLog,
                    callbacks, globalCount, groupGlobalCount, recorded, nBegin >>

\* SA_UTH_EXIT(): return Sa::UTH::Exit();
Sa_Exit ==
    /\ pc = "run"
    /\ exitRet' = exit
    /\ pc' = "exited"
    /\ out' = << >>
    /\ ret' = << >>
    /\ UNCHANGED << arg, res, build, exit, verbosity, bCslLog, bFileLog, callbacks,
                    globalCount, sGroups, groupGlobalCount, recorded, nBegin, nEnd >>

NextSa ==
    \/ \E v \in Sa_VerbositySet : Sa_SetVerbosity(v)
    \/ \E csl \in BOOLEAN : Sa_SetLog(csl)
    \/ \E cbs \in CallbackSets : Sa_SetCallbacks(cbs)
    \/ \E _pred \in BOOLEAN : Sa_Test(_pred)
    \/ \E _name \in {GroupName(i) : i \in 1..MaxBegins} : Internal_GroupBegin(_name)
    \/ Internal_GroupEnd
    \/ Sa_Exit

SpecSa == InitSa /\ [][NextSa]_vars

\* ------------------------------------------------------------------------
\* SpecEquals: the Equals helpers as functions of their operands, T being a
\* signed integer type and the operands far from its limits, so that
\* _lhs - _rhs does not overflow.  A tab is a function from 0.._len-1; the
\* tab helpers return, with their value, the indices they compared.
\* ------------------------------------------------------------------------
\* std::abs
Abs(x) == IF x < 0 THEN -x ELSE x

Equals(_lhs, _rhs) == _lhs = _rhs

\* A faulty epsilon Equals: the threshold itself counts as equal.
Equals_Epsilon_Inclusive(_lhs, _rhs, _epsilon) == Abs(_lhs - _rhs) <= _epsilon

Equals_Epsilon(_lhs, _rhs, _epsilon) == Abs(_lhs - _rhs) < _epsilon

\* for (unsigned int i = 0; i < _size; ++i) if (!Equals(_lhs[i], _rhs[i])) return false;
\* return true;
\* A faulty loop: notes the mismatch and goes on to the end.
RECURSIVE Equals_Tab_NoStop(_, _, _, _)
Equals_Tab_NoStop(_lhs, _rhs, _size, i) ==
    IF i < _size
    THEN LET r == Equals_Tab_NoStop(_lhs, _rhs, _size, i + 1)
         IN [value |-> Equals(_lhs[i], _rhs[i]) /\ r.value, read |-> {i} \cup r.read]
    ELSE [value |-> TRUE, read |-> {}]

RECURSIVE Equals_Tab(_, _, _, _)
Equals_Tab(_lhs, _rhs, _size, i) ==
    IF i < _size
    THEN IF ~Equals(_lhs[i], _rhs[i])
         THEN [value |-> FALSE, read |-> {i}]
         ELSE LET r == Equals_Tab(_lhs, _rhs, _size, i + 1)
              IN [value |-> r.value, read |-> {i} \cup r.read]
    ELSE [value |-> TRUE, read |-> {}]

RECURSIVE Equals_Tab_Epsilon(_, _, _, _, _)
Equals_Tab_Epsilon(_lhs, _rhs, _size, _epsilon, i) ==
    IF i < _size
    THEN IF ~Equals_Epsilon(_lhs[i], _rhs[i], _epsilon)
         THEN [value |-> FALSE, read |-> {i}]
         ELSE LET r == Equals_Tab_Epsilon(_lhs, _rhs, _size, _epsilon, i + 1)
              IN [value |-> r.value, read |-> {i} \cup r.read]
    ELSE [value |-> TRUE, read |-> {}]

Values == -MaxVal..MaxVal

Epsilons == -1..(MaxVal + 1)

Tabs == [0..(MaxSize - 1) -> 0..MaxElem]

TabEpsilons == 0..(MaxElem + 1)

ScalarArgs == [kind : {"scalar"}, lhs : Values, rhs : Values, epsilon : Epsilons]

TabArgs ==
    [kind : {"tab"}, lhs : Tabs, rhs : Tabs, size : 0..MaxSize, epsilon : TabEpsilons]

InitEquals ==
    /\ ProgramStart([exitOnFailure |-> FALSE, dfltCslLog |-> FALSE, dfltFileLog |-> FALSE],
                    Default)
    /\ arg \in ScalarArgs \cup TabArgs
    /\ res = [op |-> "none"]

\* Equals(lhs, rhs)
Apply_Equals ==
    /\ res.op = "none"
    /\ arg.kind = "scalar"
    /\ res' = [op |-> "Equals", value |-> Equals(arg.lhs, arg.rhs)]
    /\ UNCHANGED << arg, build, pc, exit, exitRet, verbosity, bCslLog, bFileLog, callbacks,
                    globalCount, sGroups, groupGlobalCount, ret, out, recorded, nBegin, nEnd >>

\* Equals(lhs, rhs, epsilon)
Apply_Equals_Epsilon ==
    /\ res.op = "none"
    /\ arg.kind = "scalar"
    /\ res' = [op |-> "Equals_Epsilon",
               value |-> Equals_Epsilon(arg.lhs, arg.rhs, arg.epsilon)]
    /\ UNCHANGED << arg, build, pc, exit, exitRet, verbosity, bCslLog, bFileLog, callbacks,
                    globalCount, sGroups, groupGlobalCount, ret, out, recorded, nBegin, nEnd >>

\* Equals(lhs, rhs, size) on tabs
Apply_Equals_Tab ==
    /\ res.op = "none"
    /\ arg.kind = "tab"
    /\ LET r == Equals_Tab(arg.lhs, arg.rhs, arg.size, 0)
       IN res' = [op |-> "Equals_Tab", value |-> r.value, read |-> r.read]
    /\ UNCHANGED << arg, build, pc, exit, exitRet, verbosity, bCslLog, bFileLog, callbacks,
                    globalCount, sGroups, groupGlobalCount, ret, out, recorded, nBegin, nEnd >>

\* Equals(lhs, rhs, size, epsilon) on tabs
Apply_Equals_Tab_Epsilon ==
    /\ res.op = "none"
    /\ arg.kind = "tab"
    /\ LET r == Equals_Tab_Epsilon(arg.lhs, arg.rhs, arg.size, arg.epsilon, 0)
       IN res' = [op |-> "Equals_Tab_Epsilon", value |-> r.value, read |-> r.read]
    /\ UNCHANGED << arg, build, pc, exit, exitRet, verbosity, bCslLog, bFileLog, callbacks,
                    globalCount, sGroups, groupGlobalCount, ret, out, recorded, nBegin, nEnd >>

NextEquals ==
    \/ Apply_Equals
    \/ Apply_Equals_Epsilon
    \/ Apply_Equals_Tab
    \/ Apply_Equals_Tab_Epsilon

SpecEquals == InitEquals /\ [][NextEquals]_vars

\* ------------------------------------------------------------------------
\* SpecParam: the built-in params log of one reported assertion.  The
\* arguments the macro hands to Intl::ComputeParam are drawn from the cases of
\* UTH::ToString; a string is "" or "text".

\* The cases of ToString, with the string a std::string holds or a member
\* ToString() returns.
ArgElems ==
    [type : {"arithmetic", "enum", "pointer", "other"}, text : {"text"}]
    \cup [type : {"HM_ToString", "string"}, text : {"", "text"}]

\* UTH::ToString(_elem): std::to_string for arithmetic and enum values, "0x"
\* and the address of a pointer, _elem.ToString() where the class has one, a
\* std::string itself, and std::string() for any other type.
UTH_ToString(_elem) ==
    CASE _elem.type \in {"arithmetic", "enum"} -> "text"
      [] _elem.type = "pointer" -> "0xtext"
      [] _elem.type \in {"HM_ToString", "string"} -> _elem.text
      [] OTHER -> ""

\* The names of the arguments, as the macro spelled them.
ParamName(i) == << "p1", "p2", "p3", "p4", "p5", "p6", "p7", "p8" >>[i]

\* Intl::GenerateParamStr: one Param{name, ToString(arg)} for each argument, in
\* the order of the arguments.
Intl_GenerateParamStr(_args) ==
    [i \in 1..Len(_args) |-> [name |-> ParamName(i), value |-> UTH_ToString(_args[i])]]

\* What Param::Log writes for one Param: the name line under ParamsName, then
\* the warning for an empty value or the value line.  Each write goes to the
\* console if bCslLog and to the file if bFileLog, and nowhere otherwise.
\* A faulty log: a Param with an empty value is left out.
Param_Log_Param_SkipEmpty(_param) ==
    IF ~Intl_ShouldLog THEN << >>
    ELSE IF _param.value = "" THEN << >>
    ELSE (IF HasFlag(verbosity, ParamsName)
          THEN << [kind |-> "name", of |-> _param.name, text |-> _param.name] >>
          ELSE << >>)
         \o << [kind |-> "value", of |-> _param.name, text |-> _param.value] >>

Param_Log_Param(_param) ==
    IF ~Intl_ShouldLog THEN << >>
    ELSE (IF HasFlag(verbosity, ParamsName)
          THEN << [kind |-> "name", of |-> _param.name, text |-> _param.name] >>
          ELSE << >>)
         \o (IF _param.value = ""
             THEN << [kind |-> "warning", of |-> _param.name,
                      text |-> "-No debug string-"] >>
             ELSE << [kind |-> "value", of |-> _param.name, text |-> _param.value] >>)

\* Param::Log(_params), from the i-th Param on.
RECURSIVE Param_Log_Lines(_, _)
Param_Log_Lines(_params, i) ==
    IF i > Len(_params) THEN << >>
    ELSE Param_Log_Param(_params[i]) \o Param_Log_Lines(_params, i + 1)

ParamArgs ==
    { a \in UNION { [1..n -> ArgElems] : n \in 1..MaxParams } : TRUE }

InitParam ==
    /\ \E b \in Builds : \E v \in VerbositySet : ProgramStart(b, v)
    /\ arg \in [kind : {"params"}, args : ParamArgs]
    /\ res = [op |-> "none"]

\* GenerateParamStr(params, _paramNames, _args...); Param::Log(params);
Apply_Param_Log ==
    /\ res.op = "none"
    /\ LET params == Intl_GenerateParamStr(arg.args)
       IN res' = [op |-> "Param::Log", params |-> params,
                  lines |-> Param_Log_Lines(params, 1)]
    /\ UNCHANGED << arg, build, pc, exit, exitRet, verbosity, bCslLog, bFileLog, callbacks,
                    globalCount, sGroups, groupGlobalCount, ret, out, recorded, nBegin, nEnd >>

NextParam == Apply_Param_Log

SpecParam == InitParam /\ [][NextParam]_vars

\* ------------------------------------------------------------------------
\* SpecLogger: the life of Intl::Logger::instance, the object of static
\* storage duration that owns the log file, around a test program.  res is
\* the instance: op tells where the process is ("static-init" before the
\* constructors of the statics, "main" while main runs and until the statics
\* are destroyed, "ended" after), is_open is logFile.is_open(), opens and
\* closes count the times the file handle was opened and closed.

\* std::fstream::open on a stream that is not open.
fstream_open(f) == [f EXCEPT !.is_open = TRUE, !.opens = @ + 1]

\* std::fstream::close: closes the handle of an open stream and does nothing
\* to a stream that is not open.
fstream_close(f) ==
    IF f.is_open THEN [f EXCEPT !.is_open = FALSE, !.closes = @ + 1] ELSE f

\* The exits that destroy the objects of static storage duration: the return
\* of main (return Intl::Exit()) and ::exit(EXIT_FAILURE).
\* A faulty teardown: the statics are only destroyed when main returns.
StaticDestruction_ReturnOnly == pc = "exited"

StaticDestruction == pc \in {"exited", "aborted"}

InitLogger ==
    /\ \E b \in Builds : \E v \in VerbositySet : ProgramStart(b, v)
    /\ arg = << >>
    /\ res = [op |-> "static-init", is_open |-> FALSE, opens |-> 0, closes |-> 0]

\* Logger::Logger(), run for inline Logger Logger::instance before main:
\* logFile.open(logFileName, out | app).
Logger_Logger ==
    /\ res.op = "static-init"
    /\ res' = [fstream_open(res) EXCEPT !.op = "main"]
    /\ UNCHANGED << arg, build, pc, exit, exitRet, verbosity, bCslLog, bFileLog, callbacks,
                    globalCount, sGroups, groupGlobalCount, ret, out, recorded, nBegin, nEnd >>

\* Logger::~Logger(), run once the process leaves through the return of main
\* or ::exit: logFile.close(), then the destructor of the member logFile,
\* which closes a stream that is still open.
Logger_Dtor ==
    /\ res.op = "main"
    /\ StaticDestruction
    /\ res' = [fstream_close(fstream_close(res)) EXCEPT !.op = "ended"]
    /\ UNCHANGED << arg, build, pc, exit, exitRet, verbosity, bCslLog, bFileLog, callbacks,
                    globalCount, sGroups, groupGlobalCount, ret, out, recorded, nBegin, nEnd >>

\* main: the log toggles, assertions, and return Intl::Exit().
NextLogger ==
    \/ Logger_Logger
    \/ res.op = "main" /\ \E csl \in BOOLEAN, file \in BOOLEAN : SetLog(csl, file)
    \/ res.op = "main" /\ \E _pred \in BOOLEAN, _str \in BOOLEAN : Test(_pred, _str)
    \/ res.op = "main" /\ Intl_Exit
    \/ Logger_Dtor

SpecLogger == InitLogger /\ [][NextLogger]_vars

\* ------------------------------------------------------------------------
\* SpecThreads: Threads threads of one process that call Intl::Update, each
\* for its own assertions.  ++success and ++failure on an unsigned int are a
\* load and a store; two threads in the same increment race, and any
\* interleaving of their loads and stores is an outcome.  res holds the
\* threads: tpc[t] is where thread t stands in Intl::Update, pred[t] the
\* predicate of its call, tmp[t] the value it loaded; serialized tells
\* whether the caller wraps each assertion in one mutex, held by holder (0:
\* free).

Threads == 1..NThreads

\* The field of a Counter that Counter::Update(_pred) increments.
Counter_Field(_pred) == IF _pred THEN "success" ELSE "failure"

\* Whether thread t may start an assertion: always when the caller takes no
\* lock, else when the mutex is free.
\* A faulty mutex: it lets every thread in.
CanEnter_NoExclusion(t) == TRUE

CanEnter(t) == ~res.serialized \/ res.holder = 0

InitThreads ==
    /\ ProgramStart([exitOnFailure |-> FALSE, dfltCslLog |-> FALSE, dfltFileLog |-> FALSE],
                    None)
    /\ arg = << >>
    /\ res \in [op : {"threads"}, serialized : BOOLEAN, holder : {0},
                 tpc : {[t \in Threads |-> "idle"]},
                 pred : {[t \in Threads |-> TRUE]},
                 tmp : {[t \in Threads |-> 0]}]

\* The main thread opens a group before the threads run: Group::Begin.
Thread_Group_Begin ==
    /\ Counter_Total(recorded) = 0
    /\ \A t \in Threads : res.tpc[t] = "idle"
    /\ Group_Begin(GroupName(1))

\* Thread t reaches an assertion whose predicate is _pred, takes the
\* caller's mutex if there is one, and enters Intl::Update(_pred).
Thread_Call(t, _pred) ==
    /\ res.tpc[t] = "idle"
    /\ Counter_Total(recorded) < MaxAsserts
    /\ CanEnter(t)
    /\ res' = [res EXCEPT !.tpc[t] = "globalCount.load", !.pred[t] = _pred,
                          !.holder = IF res.serialized THEN t ELSE @]
    /\ recorded' = Tally(recorded, _pred)
    /\ UNCHANGED << arg, build, pc, exit, exitRet, verbosity, bCslLog, bFileLog, callbacks,
                    globalCount, sGroups, groupGlobalCount, ret, out, nBegin, nEnd >>

\* globalCount.Update(_pred): the load of ++success / ++failure.
Thread_globalCount_Load(t) ==
    /\ res.tpc[t] = "globalCount.load"
    /\ res' = [res EXCEPT !.tpc[t] = "globalCount.store",
                          !.tmp[t] = globalCount[Counter_Field(res.pred[t])]]
    /\ UNCHANGED << arg, build, pc, exit, exitRet, verbosity, bCslLog, bFileLog, callbacks,
                    globalCount, sGroups, groupGlobalCount, ret, out, recorded, nBegin,
                    nEnd >>

\* globalCount.Update(_pred): the store of ++success / ++failure.
Thread_globalCount_Store(t) ==
    /\ res.tpc[t] = "globalCount.store"
    /\ globalCount' = [globalCount EXCEPT ![Counter_Field(res.pred[t])] = res.tmp[t] + 1]
    /\ res' = [res EXCEPT !.tpc[t] = "Group::Update"]
    /\ UNCHANGED << arg, build, pc, exit, exitRet, verbosity, bCslLog, bFileLog, callbacks,
                    sGroups, groupGlobalCount, ret, out, recorded, nBegin, nEnd >>

\* Group::Update(_pred): returns when no group is open, else the load of
\* gp.count.Update(_pred).
Thread_Group_Load(t) ==
    /\ res.tpc[t] = "Group::Update"
    /\ res' = IF sGroups = << >>
              THEN [res EXCEPT !.tpc[t] = "idle", !.holder = 0]
              ELSE [res EXCEPT !.tpc[t] = "gp.count.store",
                               !.tmp[t] = StackTop(sGroups).count[Counter_Field(res.pred[t])]]
    /\ UNCHANGED << arg, build, pc, exit, exitRet, verbosity, bCslLog, bFileLog, callbacks,
                    globalCount, sGroups, groupGlobalCount, ret, out, recorded, nBegin,
                    nEnd >>

\* Group::Update(_pred): the store of gp.count.Update(_pred), then
\* gp.localExit = EXIT_FAILURE on a failure; the assertion is over and the
\* caller releases its mutex.
Thread_Group_Store(t) ==
    /\ res.tpc[t] = "gp.count.store"
    /\ sGroups' = [sGroups EXCEPT ![Len(sGroups)] =
                      [@ EXCEPT !.count[Counter_Field(res.pred[t])] = res.tmp[t] + 1,
                                !.localExit = IF ~res.pred[t] THEN EXIT_FAILURE ELSE @]]
    /\ res' = [res EXCEPT !.tpc[t] = "idle", !.holder = 0]
    /\ UNCHANGED << arg, build, pc, exit, exitRet, verbosity, bCslLog, bFileLog, callbacks,
                    globalCount, groupGlobalCount, ret, out, recorded, nBegin, nEnd >>

NextThreads ==
    \/ Thread_Group_Begin
    \/ \E t \in Threads, _pred \in BOOLEAN : Thread_Call(t, _pred)
    \/ \E t \in Threads : Thread_globalCount_Load(t)
    \/ \E t \in Threads : Thread_globalCount_Store(t)
    \/ \E t \in Threads : Thread_Group_Load(t)
    \/ \E t \in Threads : Thread_Group_Store(t)

SpecThreads == InitThreads /\ [][NextThreads]_vars

\* ------------------------------------------------------------------------
\* SpecGroupSteps: Group::Begin and Group::End statement by statement, to see
\* the state a group callback runs in.  res is the call in progress: op is
\* "idle", "Begin" or "End", at the statement about to run, name the
\* argument of Begin, group the local of End; depth, parent and tally are
\* the stack depth, the group below the top and Group::globalCount as they
\* were when the call started.

\* The statement of Group::Begin that follows the statement l.
Group_Begin_Then(l) ==
    CASE l = "BeginLog" -> "push"
      [] l = "push" -> "GroupBeginCB"
      [] l = "GroupBeginCB" -> "return"

\* The statement of Group::End that follows the statement l.
\* A faulty End: Group::globalCount is updated before GroupEndCB is called.
Group_End_Then_TallyFirst(l) ==
    CASE l = "pop" -> "Spread"
      [] l = "Spread" -> "EndLog"
      [] l = "EndLog" -> "globalCount"
      [] l = "globalCount" -> "GroupEndCB"
      [] l = "GroupEndCB" -> "return"

Group_End_Then(l) ==
    CASE l = "pop" -> "Spread"
      [] l = "Spread" -> "EndLog"
      [] l = "EndLog" -> "GroupEndCB"
      [] l = "GroupEndCB" -> "globalCount"
      [] l = "globalCount" -> "return"

InitGroupSteps ==
    /\ \E b \in Builds : ProgramStart(b, Default)
    /\ arg = << >>
    /\ res = [op |-> "idle"]

\* The program calls Group::Begin(_name).
Steps_Begin_Call(_name) ==
    /\ pc = "run"
    /\ res.op = "idle"
    /\ nBegin < MaxBegins
    /\ _name = GroupName(nBegin + 1)
    /\ res' = [op |-> "Begin", at |-> "BeginLog", name |-> _name, depth |-> Len(sGroups)]
    /\ out' = << >>
    /\ ret' = << >>
    /\ UNCHANGED << arg, build, pc, exit, exitRet, verbosity, bCslLog, bFileLog, callbacks,
                    globalCount, sGroups, groupGlobalCount, recorded, nBegin, nEnd >>

\* if ((verbosity & Verbosity::GroupStart) && Intl::ShouldLog()) BeginLog(_name);
Steps_Begin_BeginLog ==
    /\ res.op = "Begin"
    /\ res.at = "BeginLog"
    /\ out' = out \o (IF HasFlag(verbosity, GroupStart) /\ Intl_ShouldLog
                      THEN Group_BeginLog(res.name) ELSE << >>)
    /\ res' = [res EXCEPT !.at = Group_Begin_Then(@)]
    /\ UNCHANGED << arg, build, pc, exit, exitRet, verbosity, bCslLog, bFileLog, callbacks,
                    globalCount, sGroups, groupGlobalCount, ret, recorded, nBegin, nEnd >>

\* sGroups.push(Group{ _name });
Steps_Begin_push ==
    /\ res.op = "Begin"
    /\ res.at = "push"
    /\ sGroups' = StackPush(sGroups, NewGroup(res.name, nBegin + 1))
    /\ res' = [res EXCEPT !.at = Group_Begin_Then(@)]
    /\ UNCHANGED << arg, build, pc, exit, exitRet, verbosity, bCslLog, bFileLog, callbacks,
                    globalCount, groupGlobalCount, ret, out, recorded, nBegin, nEnd >>

\* if (GroupBeginCB) GroupBeginCB(_name);  The callback runs in this state.
Steps_Begin_GroupBeginCB ==
    /\ res.op = "Begin"
    /\ res.at = "GroupBeginCB"
    /\ out' = out \o (IF "GroupBeginCB" \in callbacks
                      THEN << Ev("GroupBeginCB", 0, res.name) >> ELSE << >>)
    /\ res' = [res EXCEPT !.at = Group_Begin_Then(@)]
    /\ UNCHANGED << arg, build, pc, exit, exitRet, verbosity, bCslLog, bFileLog, callbacks,
                    globalCount, sGroups, groupGlobalCount, ret, recorded, nBegin, nEnd >>

\* Group::Begin returns.
Steps_Begin_Return ==
    /\ res.op = "Begin"
    /\ res.at = "return"
    /\ nBegin' = nBegin + 1
    /\ res' = [op |-> "idle"]
    /\ UNCHANGED << arg, build, pc, exit, exitRet, verbosity, bCslLog, bFileLog, callbacks,
                    globalCount, sGroups, groupGlobalCount, ret, out, recorded, nEnd >>

\* The program calls Group::End() with a group open.
Steps_End_Call ==
    /\ pc = "run"
    /\ res.op = "idle"
    /\ sGroups # << >>
    /\ res' = [op |-> "End", at |-> "pop", group |-> << >>, depth |-> Len(sGroups),
               parent |-> IF Len(sGroups) > 1 THEN << sGroups[Len(sGroups) - 1] >>
                          ELSE << >>,
               tally |-> groupGlobalCount]
    /\ out' = << >>
    /\ ret' = << >>
    /\ UNCHANGED << arg, build, pc, exit, exitRet, verbosity, bCslLog, bFileLog, callbacks,
                    globalCount, sGroups, groupGlobalCount, recorded, nBegin, nEnd >>

\* Group group = sGroups.top(); sGroups.pop();
Steps_End_pop ==
    /\ res.op = "End"
    /\ res.at = "pop"
    /\ res' = [res EXCEPT !.group = << StackTop(sGroups) >>, !.at = Group_End_Then(@)]
    /\ sGroups' = StackPop(sGroups)
    /\ UNCHANGED << arg, build, pc, exit, exitRet, verbosity, bCslLog, bFileLog, callbacks,
                    globalCount, groupGlobalCount, ret, out, recorded, nBegin, nEnd >>

\* if (!sGroups.empty()) group.Spread(sGroups.top());
Steps_End_Spread ==
    /\ res.op = "End"
    /\ res.at = "Spread"
    /\ sGroups' = IF sGroups # << >>
                  THEN [sGroups EXCEPT ![Len(sGroups)] =
                          ObserveChild(Group_Spread(res.group[1], @), res.group[1])]
                  ELSE sGroups
    /\ res' = [res EXCEPT !.at = Group_End_Then(@)]
    /\ UNCHANGED << arg, build, pc, exit, exitRet, verbosity, bCslLog, bFileLog, callbacks,
                    globalCount, groupGlobalCount, ret, out, recorded, nBegin, nEnd >>

\* if ((verbosity & Verbosity::GroupExit) && Intl::ShouldLog()) EndLog(group);
Steps_End_EndLog ==
    /\ res.op = "End"
    /\ res.at = "EndLog"
    /\ out' = out \o (IF HasFlag(verbosity, GroupExit) /\ Intl_ShouldLog
                      THEN Group_EndLog(res.group[1], Len(sGroups)) ELSE << >>)
    /\ res' = [res EXCEPT !.at = Group_End_Then(@)]
    /\ UNCHANGED << arg, build, pc, exit, exitRet, verbosity, bCslLog, bFileLog, callbacks,
                    globalCount, sGroups, groupGlobalCount, ret, recorded, nBegin, nEnd >>

\* if (GroupEndCB) GroupEndCB(group);  The callback runs in this state.
Steps_End_GroupEndCB ==
    /\ res.op = "End"
    /\ res.at = "GroupEndCB"
    /\ out' = out \o (IF "GroupEndCB" \in callbacks
                      THEN << Ev("GroupEndCB", 0, ExitStr(res.group[1].localExit)) >>
                      ELSE << >>)
    /\ res' = [res EXCEPT !.at = Group_End_Then(@)]
    /\ UNCHANGED << arg, build, pc, exit, exitRet, verbosity, bCslLog, bFileLog, callbacks,
                    globalCount, sGroups, groupGlobalCount, ret, recorded, nBegin, nEnd >>

\* globalCount.Update(group.localExit == EXIT_SUCCESS);
Steps_End_globalCount ==
    /\ res.op = "End"
    /\ res.at = "globalCount"
    /\ groupGlobalCount' = Group_End_globalCount(res.group[1])
    /\ res' = [res EXCEPT !.at = Group_End_Then(@)]
    /\ UNCHANGED << arg, build, pc, exit, exitRet, verbosity, bCslLog, bFileLog, callbacks,
                    globalCount, sGroups, ret, out, recorded, nBegin, nEnd >>

\* return group;
Steps_End_Return ==
    /\ res.op = "End"
    /\ res.at = "return"
    /\ ret' = res.group
    /\ nEnd' = nEnd + 1
    /\ res' = [op |-> "idle"]
    /\ UNCHANGED << arg, build, pc, exit, exitRet, verbosity, bCslLog, bFileLog, callbacks,
                    globalCount, sGroups, groupGlobalCount, out, recorded, nBegin >>

\* The test program: callbacks, assertions and groups, one call at a time.
NextGroupSteps ==
    \/ res.op = "idle" /\ \E cbs \in CallbackSets : SetCallbacks(cbs)
    \/ res.op = "idle" /\ \E _pred \in BOOLEAN : Test(_pred, TRUE)
    \/ \E _name \in {GroupName(i) : i \in 1..MaxBegins} : Steps_Begin_Call(_name)
    \/ Steps_Begin_BeginLog
    \/ Steps_Begin_push
    \/ Steps_Begin_GroupBeginCB
    \/ Steps_Begin_Return
    \/ Steps_End_Call
    \/ Steps_End_pop
    \/ Steps_End_Spread
    \/ Steps_End_EndLog
    \/ Steps_End_GroupEndCB
    \/ Steps_End_globalCount
    \/ Steps_End_Return

SpecGroupSteps == InitGroupSteps /\ [][NextGroupSteps]_vars

\* ------------------------------------------------------------------------
\* SpecNames: Intl::GenerateParamStr on the names string a macro spells and
\* the values of the call.  A std::string is a sequence of characters,
\* positions count from 0, and std::string::npos, the largest size_t, is -1:
\* npos + 2 wraps to 1, as -1 + 2 does.

npos == -1

\* _str.find_first_of(c)
find_first_of(_str, c) ==
    IF \E i \in 1..Len(_str) : _str[i] = c
    THEN (CHOOSE i \in 1..Len(_str) :
              _str[i] = c /\ \A j \in 1..(i - 1) : _str[j] # c) - 1
    ELSE npos

\* _str.substr(pos, n): the characters from pos on, n of them at most; it
\* throws std::out_of_range when pos > size(), given here as << "throw" >>.
substr(_str, pos, n) ==
    IF pos > Len(_str) THEN << "throw" >>
    ELSE IF n = npos \/ pos + n >= Len(_str) THEN SubSeq(_str, pos + 1, Len(_str))
    ELSE SubSeq(_str, pos + 1, pos + n)

\* GenerateParamStr(_result, _paramNames, _first, _args...): _args is the
\* sequence of the values, _first its head.
RECURSIVE GenerateParamStr(_, _, _)
GenerateParamStr(_result, _paramNames, _args) ==
    LET index == find_first_of(_paramNames, ",")
        pushed == Append(_result, [name |-> substr(_paramNames, 0, index),
                                   value |-> UTH_ToString(Head(_args))])
    IN IF Len(_args) > 1
       THEN GenerateParamStr(pushed, substr(_paramNames, index + 2, npos), Tail(_args))
       ELSE pushed

\* The source text of one argument: one or two letters.
NameTokens == {<< "a" >>, << "b" >>, << "a", "b" >>, << "b", "a" >>}

\* What separates two arguments in the names string: #__VA_ARGS__ keeps the
\* arguments as the caller spaced them, "i, j" or "i,j".
Separators == {<< ",", " " >>, << "," >>}

\* The names string of the tokens toks joined by the separators seps.
RECURSIVE JoinNames(_, _)
JoinNames(toks, seps) ==
    IF Len(toks) = 1 THEN toks[1]
    ELSE toks[1] \o seps[1] \o JoinNames(Tail(toks), Tail(seps))

NamesArgs ==
    UNION { [kind : {"names"}, tokens : [1..k -> NameTokens],
             seps : [1..(k - 1) -> Separators],
             values : [1..k -> {e \in ArgElems : e.type \in {"arithmetic", "other"}}]]
            : k \in 1..MaxParams }

InitNames ==
    /\ ProgramStart([exitOnFailure |-> FALSE, dfltCslLog |-> FALSE, dfltFileLog |-> FALSE],
                    Default)
    /\ arg \in NamesArgs
    /\ res = [op |-> "none"]

\* std::vector<Param> params; GenerateParamStr(params, _paramNames, _args...);
Apply_GenerateParamStr ==
    /\ res.op = "none"
    /\ res' = [op |-> "GenerateParamStr",
               paramNames |-> JoinNames(arg.tokens, arg.seps),
               params |-> GenerateParamStr(<< >>, JoinNames(arg.tokens, arg.seps),
                                           arg.values)]
    /\ UNCHANGED << arg, build, pc, exit, exitRet, verbosity, bCslLog, bFileLog, callbacks,
                    globalCount, sGroups, groupGlobalCount, ret, out, recorded, nBegin, nEnd >>

NextNames == Apply_GenerateParamStr

SpecNames == InitNames /\ [][NextNames]_vars

\* ------------------------------------------------------------------------
\* SpecMacro: one expansion of an assertion macro of UnitTestHelper.hpp, with
\* the number of times the expanded code evaluates each operand expression
\* the caller wrote.  #_x only spells the expression and evaluates nothing.
\* The arguments of a call are evaluated at the call, whatever the callee
\* does with them: once Intl::ComputeParam(...) is reached, its early return
\* and its flag test come after the evaluation.  _reported is
\* Intl::ShouldComputeTest(bRes); _hasArgs tells whether the caller passed
\* variadic arguments (__VA_ARGS__ is then an operand).
\* ------------------------------------------------------------------------
MacroNames ==
    {"SA_UTH_EQ", "SA_UTH_SF", "SA_UTH_RSF", "SA_UTH_MF", "SA_UTH_RMF",
     "SA_UTH_OP", "SA_UTH_ROP"}

\* The macros that take variadic arguments.
VariadicMacros == MacroNames \ {"SA_UTH_OP", "SA_UTH_ROP"}

VaArgs(_hasArgs, n) == IF _hasArgs THEN [args |-> n] ELSE << >>

\* auto&& sLhs = _lhs; auto&& sRhs = _rhs; Equals(sLhs, sRhs, ##__VA_ARGS__);
\* reported: SizeOfArgs(__VA_ARGS__); ComputeParam(..., sLhs, sRhs, ##__VA_ARGS__)
SA_UTH_EQ(_reported, _hasArgs) ==
    [lhs |-> 1, rhs |-> 1]
    @@ VaArgs(_hasArgs, 1 + (IF _reported THEN 2 ELSE 0))

\* _func(__VA_ARGS__); reported: ComputeParam(bRes, #__VA_ARGS__, __VA_ARGS__)
SA_UTH_SF(_reported, _hasArgs) ==
    VaArgs(_hasArgs, 1 + (IF _reported THEN 1 ELSE 0))

\* auto result = _func(__VA_ARGS__); bool bRes = result == _res;
\* reported: ComputeParam(..., __VA_ARGS__, result, _res)
SA_UTH_RSF(_reported, _hasArgs) ==
    [res |-> 1 + (IF _reported THEN 1 ELSE 0)]
    @@ VaArgs(_hasArgs, 1 + (IF _reported THEN 1 ELSE 0))

\* (_caller)._func(__VA_ARGS__); reported: ComputeParam(..., _caller, ##__VA_ARGS__)
SA_UTH_MF(_reported, _hasArgs) ==
    [caller |-> 1 + (IF _reported THEN 1 ELSE 0)]
    @@ VaArgs(_hasArgs, 1 + (IF _reported THEN 1 ELSE 0))

\* auto result = (_caller)._func(__VA_ARGS__); bool bRes = result == _res;
\* reported: ComputeParam(..., _caller, __VA_ARGS__, result, _res)
SA_UTH_RMF(_reported, _hasArgs) ==
    [res |-> 1 + (IF _reported THEN 1 ELSE 0),
     caller |-> 1 + (IF _reported THEN 1 ELSE 0)]
    @@ VaArgs(_hasArgs, 1 + (IF _reported THEN 1 ELSE 0))

\* auto&& sLhs = _lhs; auto&& sRhs = _rhs; bool bRes = sLhs _op sRhs;
\* reported: ComputeParam(..., sLhs, sRhs)
SA_UTH_OP(_reported, _hasArgs) == [lhs |-> 1, rhs |-> 1]

\* auto&& sLhs = _lhs; auto&& sRhs = _rhs; auto result = sLhs _op sRhs;
\* bool bRes = result == _res; reported: ComputeParam(..., sLhs, sRhs, result, _res)
SA_UTH_ROP(_reported, _hasArgs) ==
    [lhs |-> 1, rhs |-> 1, res |-> 1 + (IF _reported THEN 1 ELSE 0)]

Evaluations(macro, _reported, _hasArgs) ==
    CASE macro = "SA_UTH_EQ" -> SA_UTH_EQ(_reported, _hasArgs)
      [] macro = "SA_UTH_SF" -> SA_UTH_SF(_reported, _hasArgs)
      [] macro = "SA_UTH_RSF" -> SA_UTH_RSF(_reported, _hasArgs)
      [] macro = "SA_UTH_MF" -> SA_UTH_MF(_reported, _hasArgs)
      [] macro = "SA_UTH_RMF" -> SA_UTH_RMF(_reported, _hasArgs)
      [] macro = "SA_UTH_OP" -> SA_UTH_OP(_reported, _hasArgs)
      [] macro = "SA_UTH_ROP" -> SA_UTH_ROP(_reported, _hasArgs)

\* The macros that compare the value of the call with an expected value.
ReturnMacros == {"SA_UTH_RSF", "SA_UTH_RMF", "SA_UTH_ROP"}

\* The values handed to Intl::ComputeParam after the names, in the order of
\* the call; result is the local the macro stored the call's value in, res the
\* expected value _res.
\* A faulty list: the expected value ahead of the computed one.
ParamList_ExpectedFirst(macro, _hasArgs) ==
    LET va == IF _hasArgs THEN << "args" >> ELSE << >>
    IN CASE macro = "SA_UTH_EQ" -> << "lhs", "rhs" >> \o va
         [] macro = "SA_UTH_SF" -> va
         [] macro = "SA_UTH_RSF" -> va \o << "res", "result" >>
         [] macro = "SA_UTH_MF" -> << "caller" >> \o va
         [] macro = "SA_UTH_RMF" -> << "caller" >> \o va \o << "res", "result" >>
         [] macro = "SA_UTH_OP" -> << "lhs", "rhs" >>
         [] macro = "SA_UTH_ROP" -> << "lhs", "rhs", "res", "result" >>

ParamList(macro, _hasArgs) ==
    LET va == IF _hasArgs THEN << "args" >> ELSE << >>
    IN CASE macro = "SA_UTH_EQ" -> << "lhs", "rhs" >> \o va
         [] macro = "SA_UTH_SF" -> va
         [] macro = "SA_UTH_RSF" -> va \o << "result", "res" >>
         [] macro = "SA_UTH_MF" -> << "caller" >> \o va
         [] macro = "SA_UTH_RMF" -> << "caller" >> \o va \o << "result", "res" >>
         [] macro = "SA_UTH_OP" -> << "lhs", "rhs" >>
         [] macro = "SA_UTH_ROP" -> << "lhs", "rhs", "result", "res" >>

\* The calls of the function, member or operator under test in one
\* expansion: bool bRes = _func(...) or auto result = _func(...) stands once
\* in each macro, ahead of the reported branch, and the branch uses the stored
\* value.
Invocations(macro, _reported) == IF macro \in MacroNames THEN 1 ELSE 0

\* bRes: the value of the call for the predicate macros, result == _res for
\* the return-value macros.
MacroPred(a) == IF a.macro \in ReturnMacros THEN a.result = a.expected ELSE a.pred

\* The macros that hand __VA_ARGS__ to Intl::ComputeParam without ##: an
\* expansion with no arguments leaves an empty argument in the call and does
\* not compile.
NeedsArgs == {"SA_UTH_SF", "SA_UTH_RSF", "SA_UTH_RMF"}

MacroArgs ==
    [macro : MacroNames \ ReturnMacros, pred : BOOLEAN, hasArgs : BOOLEAN, str : BOOLEAN]
    \cup [macro : ReturnMacros, result : {0, 1}, expected : {0, 1}, hasArgs : BOOLEAN,
           str : BOOLEAN]

InitMacro ==
    /\ \E b \in Builds : \E v \in VerbositySet : ProgramStart(b, v)
    /\ arg \in { a \in MacroArgs : /\ a.hasArgs => a.macro \in VariadicMacros
                                  /\ a.macro \in NeedsArgs => a.hasArgs }
    /\ res = [op |-> "none"]

\* The expansion of arg.macro.
Expand ==
    /\ res.op = "none"
    /\ Assertion(MacroPred(arg), arg.str)
    /\ res' = [op |-> arg.macro,
               reported |-> Intl_ShouldComputeTest(MacroPred(arg)),
               evals |-> Evaluations(arg.macro, Intl_ShouldComputeTest(MacroPred(arg)),
                                     arg.hasArgs),
               invocations |-> Invocations(arg.macro,
                                           Intl_ShouldComputeTest(MacroPred(arg))),
               params |-> IF Intl_ShouldComputeTest(MacroPred(arg))
                          THEN ParamList(arg.macro, arg.hasArgs) ELSE << >>]
    /\ UNCHANGED arg

\* The program sets the log toggles and the callbacks before the assertion.
NextMacro ==
    \/ res.op = "none" /\ \E csl \in BOOLEAN, file \in BOOLEAN : SetLog(csl, file)
    \/ res.op = "none" /\ \E cbs \in CallbackSets : SetCallbacks(cbs)
    \/ Expand

SpecMacro == InitMacro /\ [][NextMacro]_vars

\* ========================================================================
\* Properties of UnitTestHelper.hpp, checked under Spec unless stated.
\* ========================================================================
Returned == ret # << >>

OpenIds == { sGroups[i].id : i \in 1..Len(sGroups) }

\* C1: with exit-on-failure off, a run of N assertions of which k failed ends
\* with Intl::globalCount = {N - k, k}, and Intl::Exit returns EXIT_FAILURE
\* iff k > 0 and EXIT_SUCCESS otherwise, whatever the verbosity, the log
\* toggles, the callbacks and the groups were.
C1_GlobalCountAndExitCode ==
    (~build.exitOnFailure /\ pc = "exited") =>
        /\ globalCount.success = recorded.success
        /\ globalCount.failure = recorded.failure
        /\ (exitRet = EXIT_FAILURE) <=> (recorded.failure > 0)
        /\ (exitRet = EXIT_SUCCESS) <=> (recorded.failure = 0)

\* A run that ended after three assertions, one failed, recorded silently
\* (verbosity None) inside a group.
C1_Witness ==
    /\ ~build.exitOnFailure
    /\ pc = "exited"
    /\ recorded = [success |-> 2, failure |-> 1]
    /\ verbosity = None
    /\ nBegin > 0
    /\ exitRet = EXIT_FAILURE

\* C2: Sa::UTH::exit is sticky: no step takes it from EXIT_FAILURE back to
\* another value.
C2_ExitSticky == [][exit = EXIT_FAILURE => exit' = EXIT_FAILURE]_vars

\* A passing assertion was reported (ComputeResult ran with _pred true) after
\* a failure had set exit.
C2_Witness ==
    /\ exit = EXIT_FAILURE
    /\ pc = "run"
    /\ Len(out) > 0
    /\ out[Len(out)] = Ev("ResultCB", 0, "Success")

\* C4: group counts aggregate bottom-up: the count of every open group and of
\* every group Group::End returns is the assertions recorded directly in it
\* plus the counts its direct children had when they ended, at any depth and
\* for any number of children.
C4_NestedCountsAggregate ==
    /\ \A i \in 1..Len(sGroups) :
          sGroups[i].count = TallySum(sGroups[i].own, sGroups[i].kids)
    /\ Returned => ret[1].count = TallySum(ret[1].own, ret[1].kids)

\* An outer group was returned that recorded an assertion itself and had two
\* more recorded in groups below it.
C4_Witness ==
    /\ Returned
    /\ ret[1].own.success + ret[1].own.failure = 1
    /\ ret[1].kids.success + ret[1].kids.failure = 2
    /\ nBegin = 3
    /\ sGroups = << >>

\* C5: the group Group::End returns has localExit = EXIT_FAILURE if an
\* assertion recorded directly in it failed, however many passed, and
\* localExit = EXIT_SUCCESS if no assertion failed while it was open; and
\* Begin(G), two passing assertions, End() returns count = {2,0},
\* localExit = EXIT_SUCCESS with Intl::globalCount = {2,0}.
C5_LocalExitOfReturnedGroup ==
    Returned =>
        /\ ret[1].own.failure > 0 => ret[1].localExit = EXIT_FAILURE
        /\ ~ret[1].sawFail => ret[1].localExit = EXIT_SUCCESS
        /\ (nBegin = 1 /\ recorded = [success |-> 2, failure |-> 0]
            /\ ret[1].own = recorded)
           => /\ ret[1].count = [success |-> 2, failure |-> 0]
              /\ ret[1].localExit = EXIT_SUCCESS
              /\ globalCount = [success |-> 2, failure |-> 0]

\* A group is returned in which two assertions passed and one failed.
C5_Witness ==
    /\ Returned
    /\ ret[1].own = [success |-> 2, failure |-> 1]
    /\ ret[1].localExit = EXIT_FAILURE

\* C6: a failure reaches every enclosing group: a group that was open when an
\* assertion failed is returned by Group::End with localExit = EXIT_FAILURE,
\* and Group::End never takes the parent's localExit from failure to success.
C6_FailurePropagates ==
    /\ [](Returned /\ ret[1].sawFail => ret[1].localExit = EXIT_FAILURE)
    /\ [][(nEnd' = nEnd + 1 /\ Len(sGroups) >= 2
            /\ sGroups[Len(sGroups) - 1].localExit = EXIT_FAILURE)
          => sGroups'[Len(sGroups')].localExit = EXIT_FAILURE]_vars

\* The outermost of three nested groups is returned; the only failure was
\* recorded in the innermost one.
C6_Witness ==
    /\ Returned
    /\ ret[1].id = 1
    /\ ret[1].own.failure = 0
    /\ ret[1].kids.failure = 1
    /\ ret[1].localExit = EXIT_FAILURE
    /\ nBegin = 3
    /\ nEnd = 3

\* C7 (SpecMisuse): Group::End with no group open fails fatally: it returns
\* no group, leaves Group::globalCount alone and does not call GroupEndCB.
C7_EndWithNoGroupIsFatal ==
    pc \in {"crashed", "ub"} =>
        /\ pc = "crashed"
        /\ ~Returned
        /\ Counter_Total(groupGlobalCount) = nEnd
        /\ \A i \in 1..Len(out) : out[i].sink # "GroupEndCB"

\* C8: groups are ended last-in first-out: the stack depth is the Begin calls
\* minus the End calls, the open groups lie in the order they were begun, and
\* the group End returns was begun after every group still open, is no longer
\* open, and carries the name its Begin was given.
C8_GroupsAreLifo ==
    /\ Len(sGroups) = nBegin - nEnd
    /\ \A i \in 1..Len(sGroups) : \A j \in 1..Len(sGroups) :
          i < j => sGroups[i].id < sGroups[j].id
    /\ \A i \in 1..Len(sGroups) : sGroups[i].name = GroupName(sGroups[i].id)
    /\ Returned =>
          /\ ret[1].id \in 1..nBegin
          /\ \A id \in OpenIds : id < ret[1].id
          /\ ret[1].name = GroupName(ret[1].id)

\* The third group begun is returned while the first is still open and the
\* second has already been ended.
C8_Witness ==
    /\ Returned
    /\ ret[1].id = 3
    /\ ret[1].name = "G3"
    /\ OpenIds = {1}
    /\ nEnd = 2

\* C11: recording does not depend on reporting.  Every value the recording
\* keeps is a function of the sequence of assertions, Begin and End calls
\* alone, so that two runs of one sequence that differ in verbosity, in
\* bCslLog/bFileLog and in the callbacks installed hold the same values:
\* Intl::globalCount is the tally of the predicates, Sa::UTH::exit is
\* EXIT_FAILURE iff one of them was false, the count and the localExit of an
\* open group follow from the assertions recorded in it and in the groups
\* ended below it, those of a returned group from the assertions recorded
\* while it was open, and each End adds to Group::globalCount one group, as a
\* success iff no assertion failed while the group was open.
C11_RecordingIndependentOfReporting ==
    /\ [](/\ globalCount = recorded
          /\ (exit = EXIT_FAILURE) <=> (recorded.failure > 0)
          /\ (exit = EXIT_SUCCESS) <=> (recorded.failure = 0)
          /\ \A i \in 1..Len(sGroups) :
                /\ sGroups[i].count = TallySum(sGroups[i].own, sGroups[i].kids)
                /\ (sGroups[i].localExit = EXIT_FAILURE)
                      <=> (sGroups[i].own.failure + sGroups[i].kids.failure > 0)
          /\ Returned =>
                /\ ret[1].count = TallySum(ret[1].own, ret[1].kids)
                /\ (ret[1].localExit = EXIT_FAILURE) <=> ret[1].sawFail)
    /\ [][nEnd' = nEnd + 1 =>
            groupGlobalCount' = Tally(groupGlobalCount, ~ret'[1].sawFail)]_vars
    /\ [][nEnd' = nEnd => groupGlobalCount' = groupGlobalCount]_vars

\* With every log off, no callback installed and verbosity None, a group that
\* saw a failure and a success was ended and two assertions are recorded.
C11_Witness ==
    /\ verbosity = None
    /\ ~bCslLog /\ ~bFileLog
    /\ callbacks = {}
    /\ globalCount = [success |-> 1, failure |-> 1]
    /\ exit = EXIT_FAILURE
    /\ Returned
    /\ ret[1].count = [success |-> 1, failure |-> 1]
    /\ groupGlobalCount = [success |-> 0, failure |-> 1]

\* The sinks of an assertion's report, and the places of their calls in the
\* calls o of one operation.
TitleSinks == {"TitleLog", "TitleCB"}

ParamsSinks == {"ParamsLog", "ParamsCB"}

ResultSinks == {"ResultCB"}

Calls(o, sinks) == { i \in 1..Len(o) : o[i].sink \in sinks }

\* An assertion is the step that adds one to recorded; its predicate is true
\* iff the success field grew.
AssertionStep == Counter_Total(recorded') = Counter_Total(recorded) + 1

AssertionPred == recorded'.success = recorded.success + 1

\* C12: an assertion produces a report iff its predicate is false or the
\* Success flag is set when it runs.  A reported assertion calls each title
\* sink that is on once (the built-in log when bCslLog or bFileLog, TitleCB when
\* set), then the params sinks, then ResultCB when set; an assertion that is
\* not reported calls no sink at all.  In both cases Intl::globalCount takes
\* the predicate, so N silent passing assertions leave it at {N, 0}.
C12_ReportIffFailedOrSuccessFlag ==
    [][AssertionStep =>
        /\ globalCount' = Tally(globalCount, AssertionPred)
        /\ IF ~AssertionPred \/ HasFlag(verbosity, Success)
           THEN /\ Cardinality(Calls(out', {"TitleLog"})) = (IF Intl_ShouldLog THEN 1 ELSE 0)
                /\ Cardinality(Calls(out', {"TitleCB"}))
                      = (IF "TitleCB" \in callbacks THEN 1 ELSE 0)
                /\ Cardinality(Calls(out', {"ResultCB"}))
                      = (IF "ResultCB" \in callbacks THEN 1 ELSE 0)
                /\ \A t \in Calls(out', TitleSinks) : \A q \in Calls(out', ParamsSinks) :
                      t < q
                /\ \A q \in Calls(out', TitleSinks \cup ParamsSinks) :
                      \A r \in Calls(out', ResultSinks) : q < r
           ELSE out' = << >>]_vars

\* Three assertions passed with the Success flag unset while the console log
\* and every callback were on; the last operation called no sink.
C12_Witness ==
    /\ ~HasFlag(verbosity, Success)
    /\ bCslLog
    /\ callbacks = AllCB
    /\ recorded = [success |-> 3, failure |-> 0]
    /\ globalCount = [success |-> 3, failure |-> 0]
    /\ out = << >>
    /\ nBegin = 0

\* C13: the parameters of an assertion go out only if the predicate is true
\* and ParamsSuccess is set or the predicate is false and ParamsFailure is
\* set.  The calls of a reported assertion start with its title, which carries
\* the predicate: when the condition holds for it each params sink that is on
\* is called once (the built-in log under bCslLog or bFileLog, ParamsCB when
\* set), in every other combination none is; and no params sink is called
\* without a title before it.
C13_ParamsGatedByFlagAndResult ==
    IF Calls(out, TitleSinks) # {}
    THEN LET _pred == out[1].text = ResultStr(TRUE)
         IN IF (_pred /\ HasFlag(verbosity, ParamsSuccess))
               \/ (~_pred /\ HasFlag(verbosity, ParamsFailure))
            THEN /\ Cardinality(Calls(out, {"ParamsLog"}))
                       = (IF Intl_ShouldLog THEN 1 ELSE 0)
                 /\ Cardinality(Calls(out, {"ParamsCB"}))
                       = (IF "ParamsCB" \in callbacks THEN 1 ELSE 0)
            ELSE Calls(out, ParamsSinks) = {}
    ELSE Calls(out, ParamsSinks) = {}

\* A passing assertion was reported to the built-in log and to the callbacks
\* with ParamsFailure set and ParamsSuccess unset: title and result, no params.
C13_Witness ==
    /\ HasFlag(verbosity, Success)
    /\ HasFlag(verbosity, ParamsFailure)
    /\ ~HasFlag(verbosity, ParamsSuccess)
    /\ out = << Ev("TitleLog", 0, "Success"), Ev("TitleCB", 0, "Success"),
                Ev("ResultCB", 0, "Success") >>

\* C14 (SpecMacro): every assertion macro evaluates each operand expression
\* the caller wrote (lhs, rhs, caller, variadic arguments, expected value)
\* exactly once per assertion, reported or silent.
C14_OperandsEvaluatedOnce ==
    res.op \in MacroNames =>
        \A operand \in DOMAIN res.evals : res.evals[operand] = 1

\* C17: in a build with SA_UTH_EXIT_ON_FAILURE the first failing assertion
\* ends the process with EXIT_FAILURE: the program is aborted as soon as a
\* failure is recorded, no step is taken once it is aborted, and
\* Intl::globalCount.failure never exceeds 1.  In a build without the option
\* the program is never aborted and an assertion leaves the control flow as
\* it was.
C17_ExitOnFirstFailure ==
    /\ [](build.exitOnFailure =>
            /\ globalCount.failure <= 1
            /\ recorded.failure <= 1
            /\ (recorded.failure = 1) <=> (pc = "aborted")
            /\ pc = "aborted" => exitRet = EXIT_FAILURE)
    /\ [](~build.exitOnFailure => pc # "aborted")
    /\ [][pc # "aborted"]_vars
    /\ [][(~build.exitOnFailure /\ AssertionStep) => pc' = pc]_vars

\* The program was aborted by the failure of its third assertion, inside a
\* group.
C17_Witness ==
    /\ build.exitOnFailure
    /\ pc = "aborted"
    /\ recorded = [success |-> 2, failure |-> 1]
    /\ globalCount.failure = 1
    /\ sGroups # << >>
    /\ exitRet = EXIT_FAILURE

\* C18: Group::globalCount counts each ended group once: its total is the
\* number of Group::End calls completed, each End adds one group, as a success
\* iff the localExit of the group it returns is EXIT_SUCCESS, whatever the
\* group's count of assertions is, and no other operation, an assertion
\* least of all, changes it.
C18_GroupTallyCountsGroups ==
    /\ [](Counter_Total(groupGlobalCount) = nEnd)
    /\ [][nEnd' = nEnd + 1 =>
            groupGlobalCount' =
                Tally(groupGlobalCount, ret'[1].localExit = EXIT_SUCCESS)]_vars
    /\ [][nEnd' = nEnd => groupGlobalCount' = groupGlobalCount]_vars
    /\ [][AssertionStep => groupGlobalCount' = groupGlobalCount]_vars

\* Two groups were ended: one without assertions, and the one returned last
\* with three assertions, one of them failed.
C18_Witness ==
    /\ Returned
    /\ ret[1].own = [success |-> 2, failure |-> 1]
    /\ nEnd = 2
    /\ recorded = [success |-> 2, failure |-> 1]
    /\ groupGlobalCount = [success |-> 1, failure |-> 1]

\* C19: an assertion recorded while no group is open changes Intl::globalCount
\* and, if it fails, Sa::UTH::exit, and nothing else of the recording or of
\* the settings: the stack stays empty and Group::globalCount is unchanged.
\* Two passing and one failing assertion in a program that begins no group,
\* in any order, leave Intl::globalCount = {2,1} and exit = EXIT_FAILURE.
C19_AssertionOutsideGroups ==
    /\ [][(AssertionStep /\ sGroups = << >>) =>
            /\ globalCount' = Tally(globalCount, AssertionPred)
            /\ exit' = (IF AssertionPred THEN exit ELSE EXIT_FAILURE)
            /\ sGroups' = << >>
            /\ groupGlobalCount' = groupGlobalCount
            /\ UNCHANGED << verbosity, bCslLog, bFileLog, callbacks >>]_vars
    /\ []((nBegin = 0 /\ recorded = [success |-> 2, failure |-> 1]) =>
            /\ globalCount = [success |-> 2, failure |-> 1]
            /\ exit = EXIT_FAILURE
            /\ sGroups = << >>
            /\ groupGlobalCount = ZeroCounter)

\* Three assertions, one failed, were recorded and no group was ever begun;
\* the last one passed and was reported to the callbacks.
C19_Witness ==
    /\ nBegin = 0
    /\ recorded = [success |-> 2, failure |-> 1]
    /\ globalCount = [success |-> 2, failure |-> 1]
    /\ exit = EXIT_FAILURE
    /\ pc = "run"
    /\ Len(out) > 0
    /\ out[Len(out)] = Ev("ResultCB", 0, "Success")

\* The last operation called the sink.
Called(sink) == Calls(out, {sink}) # {}

\* C20: the callbacks come on top of the built-in output.  With bCslLog or
\* bFileLog on and the callbacks set, a reported assertion calls the built-in
\* title log and TitleCB, then ResultCB, and its params go to the built-in log
\* and to ParamsCB alike; Begin with GroupStart set writes the built-in group
\* line and calls GroupBeginCB, End with GroupExit set writes the exit line
\* and calls GroupEndCB.  Neither side suppresses the other: whenever one of
\* the two sinks of a pair was called, the other was called iff it is on.
C20_CallbacksAreAdditive ==
    /\ [][(AssertionStep /\ (~AssertionPred \/ HasFlag(verbosity, Success))
            /\ Intl_ShouldLog /\ callbacks = AllCB) =>
            /\ Calls(out', {"TitleLog"}) # {}
            /\ Calls(out', {"TitleCB"}) # {}
            /\ Calls(out', {"ResultCB"}) # {}
            /\ (Calls(out', {"ParamsLog"}) # {}) <=> (Calls(out', {"ParamsCB"}) # {})]_vars
    /\ [][(nBegin' = nBegin + 1 /\ HasFlag(verbosity, GroupStart)
            /\ Intl_ShouldLog /\ "GroupBeginCB" \in callbacks) =>
            /\ Calls(out', {"BeginLog"}) # {}
            /\ Calls(out', {"GroupBeginCB"}) # {}]_vars
    /\ [][(nEnd' = nEnd + 1 /\ HasFlag(verbosity, GroupExit)
            /\ Intl_ShouldLog /\ "GroupEndCB" \in callbacks) =>
            /\ Calls(out', {"EndLog"}) # {}
            /\ Calls(out', {"GroupEndCB"}) # {}]_vars
    /\ [](/\ Called("TitleLog") => (Called("TitleCB") <=> "TitleCB" \in callbacks)
          /\ Called("TitleCB") => (Called("TitleLog") <=> Intl_ShouldLog)
          /\ Called("ParamsLog") => (Called("ParamsCB") <=> "ParamsCB" \in callbacks)
          /\ Called("ParamsCB") => (Called("ParamsLog") <=> Intl_ShouldLog)
          /\ Called("BeginLog") => (Called("GroupBeginCB") <=> "GroupBeginCB" \in callbacks)
          /\ Called("GroupBeginCB")
                => (Called("BeginLog") <=> (HasFlag(verbosity, GroupStart) /\ Intl_ShouldLog))
          /\ Called("EndLog") => (Called("GroupEndCB") <=> "GroupEndCB" \in callbacks)
          /\ Called("GroupEndCB")
                => (Called("EndLog") <=> (HasFlag(verbosity, GroupExit) /\ Intl_ShouldLog)))

\* A failing assertion inside a group went to the built-in log and to the
\* three callbacks, params included.
C20_Witness ==
    /\ callbacks = AllCB
    /\ Intl_ShouldLog
    /\ out = << Ev("TitleLog", 1, "Failure"), Ev("TitleCB", 0, "Failure"),
                Ev("ParamsLog", 1, "names+values"), Ev("ParamsCB", 0, "params"),
                Ev("ResultCB", 0, "Failure") >>

\* C21: an assertion recorded while groups are open updates the innermost
\* group alone: the stack keeps its depth, the top group takes the predicate,
\* and the count and localExit of every group below it stay as they were.  A
\* group's count or localExit changes in two steps only: an assertion while
\* it is the top of the stack, and the End of its direct child.
C21_OnlyInnermostGroupUpdated ==
    /\ [][(AssertionStep /\ sGroups # << >>) =>
            /\ Len(sGroups') = Len(sGroups)
            /\ sGroups'[Len(sGroups)].count
                  = Tally(sGroups[Len(sGroups)].count, AssertionPred)
            /\ sGroups'[Len(sGroups)].localExit
                  = (IF AssertionPred THEN sGroups[Len(sGroups)].localExit
                     ELSE EXIT_FAILURE)
            /\ \A i \in 1..(Len(sGroups) - 1) :
                  /\ sGroups'[i].count = sGroups[i].count
                  /\ sGroups'[i].localExit = sGroups[i].localExit]_vars
    /\ [][\A i \in 1..Len(sGroups) :
            (/\ i <= Len(sGroups')
             /\ \/ sGroups'[i].count # sGroups[i].count
                \/ sGroups'[i].localExit # sGroups[i].localExit)
            => \/ AssertionStep /\ i = Len(sGroups)
               \/ nEnd' = nEnd + 1 /\ i = Len(sGroups) - 1]_vars

\* Two groups are open; a passing and a failing assertion were recorded in
\* the inner one, and the outer one still has an empty count and EXIT_SUCCESS.
C21_Witness ==
    /\ Len(sGroups) = 2
    /\ sGroups[2].count = [success |-> 1, failure |-> 1]
    /\ sGroups[2].localExit = EXIT_FAILURE
    /\ sGroups[1].count = ZeroCounter
    /\ sGroups[1].localExit = EXIT_SUCCESS
    /\ recorded = [success |-> 1, failure |-> 1]

\* c never decreases to d, field by field.
NotBelow(c, d) == d.success >= c.success /\ d.failure >= c.failure

\* C22: the counters are monotone: no step of a run (assertion, Begin, End,
\* Exit, a change of settings) decreases a field of Intl::globalCount, of
\* Group::globalCount or of the count of a group that stays on the stack; and
\* Total() of each of them is success + failure.
C22_CountersMonotone ==
    /\ [][/\ NotBelow(globalCount, globalCount')
          /\ NotBelow(groupGlobalCount, groupGlobalCount')
          /\ \A i \in 1..Len(sGroups) :
                i <= Len(sGroups') => NotBelow(sGroups[i].count, sGroups'[i].count)]_vars
    /\ [](/\ Counter_Total(globalCount) = globalCount.success + globalCount.failure
          /\ Counter_Total(globalCount) = recorded.success + recorded.failure
          /\ Counter_Total(groupGlobalCount)
                = groupGlobalCount.success + groupGlobalCount.failure
          /\ \A i \in 1..Len(sGroups) :
                Counter_Total(sGroups[i].count)
                  = sGroups[i].count.success + sGroups[i].count.failure)

\* A run ended with both fields of both tallies grown: three assertions, one
\* failed, and two groups ended, one failed.
C22_Witness ==
    /\ pc = "exited"
    /\ globalCount = [success |-> 2, failure |-> 1]
    /\ groupGlobalCount = [success |-> 1, failure |-> 1]

\* C23: with bCslLog and bFileLog both off, a reported assertion formats
\* nothing, whatever callbacks are installed: no title is built, no Param
\* list is generated, ToString is called on no argument.  A Title handed to
\* TitleCB has been built, and the params handed to ParamsCB are the list
\* GenerateParamStr filled with ToString of every argument; so with both logs
\* off the last operation called neither.
C23_NoFormattingWhenLogsOff ==
    (~bCslLog /\ ~bFileLog) => Calls(out, {"TitleCB", "ParamsCB"}) = {}

\* C24: group report indentation.  The built-in 'group begin' line and the
\* 'group end' line of a group are indented by the number of groups enclosing
\* it: the depth of the stack without the group just pushed, and the depth
\* left by the pop.  Every built-in line of an assertion's report, title and
\* params, is indented by the depth of the stack, one level deeper than the
\* two lines of the group it is recorded in.
C24_GroupReportIndentation ==
    \A i \in 1..Len(out) :
        /\ out[i].sink = "BeginLog" => out[i].tabs = Len(sGroups) - 1
        /\ out[i].sink = "EndLog" => out[i].tabs = Len(sGroups)
        /\ out[i].sink \in {"TitleLog", "ParamsLog"} => out[i].tabs = Len(sGroups)

AssertionSinks == TitleSinks \cup ParamsSinks \cup ResultSinks

\* C25: an assertion is processed in one piece and in order: the counter is
\* updated, then each title sink that is on is called once, then each params
\* sink at most once, then ResultCB once if it is set; the predicate in the
\* title and the argument of ResultCB are the assertion's predicate; the calls
\* of the step are those of this assertion and of nothing else, and no other
\* operation calls an assertion sink.  The update is made before the report:
\* a program ::exit ends inside ComputeResult has the failure counted and
\* ResultCB called.
C25_AssertionProcessedInOrder ==
    /\ [][AssertionStep =>
            /\ globalCount' = Tally(globalCount, AssertionPred)
            /\ \A i \in 1..Len(out') : out'[i].sink \in AssertionSinks
            /\ \A sink \in AssertionSinks : Cardinality(Calls(out', {sink})) <= 1
            /\ (~AssertionPred \/ HasFlag(verbosity, Success)) =>
                  /\ Calls(out', {"TitleLog"}) # {} <=> Intl_ShouldLog
                  /\ Calls(out', {"TitleCB"}) # {} <=> "TitleCB" \in callbacks
                  /\ Calls(out', {"ResultCB"}) # {} <=> "ResultCB" \in callbacks
            /\ \A t \in Calls(out', TitleSinks) : \A q \in Calls(out', ParamsSinks) :
                  t < q
            /\ \A q \in Calls(out', TitleSinks \cup ParamsSinks) :
                  \A r \in Calls(out', ResultSinks) : q < r
            /\ \A i \in Calls(out', TitleSinks \cup ResultSinks) :
                  out'[i].text = ResultStr(AssertionPred)]_vars
    /\ [][~AssertionStep => Calls(out', AssertionSinks) = {}]_vars
    /\ [](pc = "aborted" =>
            /\ globalCount = recorded
            /\ "ResultCB" \in callbacks => Called("ResultCB"))

\* The program was ended by ::exit inside the report of a failing assertion:
\* the failure is counted and the title log, TitleCB and ResultCB were called.
C25_Witness ==
    /\ pc = "aborted"
    /\ globalCount = [success |-> 1, failure |-> 1]
    /\ Called("TitleLog")
    /\ Called("TitleCB")
    /\ out[Len(out)] = Ev("ResultCB", 0, "Failure")

\* C33 (SpecMacro): the params gate sits inside the report gate.  The params
\* of an assertion are emitted iff the assertion is reported (it failed, or
\* the Success flag is set), the params flag of its result is set
\* (ParamsFailure for a failure, ParamsSuccess for a pass) and a log is on or
\* ParamsCB is set; they go to the built-in log iff moreover a log is on and
\* to ParamsCB iff moreover ParamsCB is set.  So under ParamsSuccess without
\* Success a passing assertion emits no params.
C33_ParamsInsideReportGate ==
    res.op \in MacroNames =>
        LET _pred == IF arg.macro \in ReturnMacros THEN arg.result = arg.expected
                     ELSE arg.pred
            gate == /\ ~_pred \/ HasFlag(verbosity, Success)
                    /\ \/ _pred /\ HasFlag(verbosity, ParamsSuccess)
                       \/ ~_pred /\ HasFlag(verbosity, ParamsFailure)
        IN /\ (Called("ParamsLog") \/ Called("ParamsCB")) <=>
                 (gate /\ (bCslLog \/ bFileLog \/ "ParamsCB" \in callbacks))
           /\ Called("ParamsLog") <=> (gate /\ (bCslLog \/ bFileLog))
           /\ Called("ParamsCB") <=> (gate /\ "ParamsCB" \in callbacks)
           /\ (_pred /\ HasFlag(verbosity, ParamsSuccess) /\ ~HasFlag(verbosity, Success))
                 => out = << >>

\* SA_UTH_SF passed under verbosity ParamsSuccess, with a log on and ParamsCB
\* set: nothing was emitted.
C33_Witness ==
    /\ res.op = "SA_UTH_SF"
    /\ arg.pred
    /\ verbosity = ParamsSuccess
    /\ bCslLog
    /\ "ParamsCB" \in callbacks
    /\ ~res.reported
    /\ out = << >>

\* C26 (SpecMacro): a return-value macro (SA_UTH_RSF, SA_UTH_RMF, SA_UTH_ROP)
\* calls the function, member or operator under test once, reported or not;
\* the predicate it records is (result == expected); and when the params are
\* emitted, the list ends with the stored result and then the expected value,
\* behind the operands of the call, each listed once.
C26_ReturnMacroCallsOnce ==
    res.op \in ReturnMacros =>
        /\ res.invocations = 1
        /\ recorded = Tally(ZeroCounter, arg.result = arg.expected)
        /\ Called("ParamsLog") \/ Called("ParamsCB") =>
              LET n == Len(res.params)
              IN /\ n >= 2
                 /\ res.params[n - 1] = "result"
                 /\ res.params[n] = "res"
                 /\ \A i \in 1..(n - 2) :
                       res.params[i] \in {"caller", "lhs", "rhs", "args"}
                 /\ \A i \in 1..n : \A j \in 1..n :
                       res.params[i] = res.params[j] => i = j

\* SA_UTH_RMF with arguments compared a result 0 with the expected 1, failed,
\* and its params went to the built-in log.
C26_Witness ==
    /\ res.op = "SA_UTH_RMF"
    /\ arg.hasArgs
    /\ arg.result = 0
    /\ arg.expected = 1
    /\ recorded = [success |-> 0, failure |-> 1]
    /\ Called("ParamsLog")
    /\ res.params = << "caller", "args", "result", "res" >>


\* C30: localExit and count agree on every group the program can see: a group
\* on the stack, the group Group::End returns, and the same group as
\* GroupEndCB receives it, has localExit = EXIT_FAILURE iff its count holds
\* at least one failure.
C30_LocalExitIffFailureCounted ==
    /\ \A i \in 1..Len(sGroups) :
          sGroups[i].localExit = EXIT_FAILURE <=> sGroups[i].count.failure > 0
    /\ Returned =>
          /\ ret[1].localExit = EXIT_FAILURE <=> ret[1].count.failure > 0
          /\ ret[1].localExit \in {EXIT_SUCCESS, EXIT_FAILURE}
          /\ \A i \in 1..Len(out) :
                out[i].sink = "GroupEndCB" =>
                    (out[i].text = "EXIT_FAILURE" <=> ret[1].count.failure > 0)

\* An inner group that failed was ended and handed to GroupEndCB; its parent,
\* still open, holds a success of its own and the child's failure.
C30_Witness ==
    /\ Returned
    /\ Called("GroupEndCB")
    /\ ret[1].localExit = EXIT_FAILURE
    /\ ret[1].count = [success |-> 0, failure |-> 1]
    /\ Len(sGroups) = 1
    /\ sGroups[1].localExit = EXIT_FAILURE
    /\ sGroups[1].count = [success |-> 1, failure |-> 1]

\* The sum of the counts of the first n groups of the stack stk.
RECURSIVE StackCount(_, _)
StackCount(stk, n) ==
    IF n = 0 THEN ZeroCounter ELSE TallySum(StackCount(stk, n - 1), stk[n].count)

\* What Intl::globalCount holds beyond the groups on the stack stk: the
\* assertions recorded with no group open and the counts of the top-level
\* groups that were ended.
BeyondStack(gc, stk) ==
    LET onStack == StackCount(stk, Len(stk))
    IN [success |-> gc.success - onStack.success, failure |-> gc.failure - onStack.failure]

\* C31: assertion counts are conserved.  Group::Begin and Group::End change
\* neither Intl::globalCount nor Sa::UTH::exit.  Intl::globalCount is the sum
\* of the counts of the groups on the stack, of the assertions recorded with
\* an empty stack and of the counts of the top-level groups ended: the part
\* beyond the stack starts at zero, takes each assertion recorded with an
\* empty stack and the count of each group whose End empties the stack, and
\* no other step changes it (a step that leaves Intl::globalCount and the
\* stack as they were is neither an assertion nor an End).
C31_CountsConserved ==
    /\ []((recorded = ZeroCounter) => (globalCount = ZeroCounter))
    /\ [][(nBegin' # nBegin \/ nEnd' # nEnd) =>
            (globalCount' = globalCount /\ exit' = exit)]_vars
    /\ [][IF globalCount' = globalCount /\ sGroups' = sGroups
          THEN ~AssertionStep /\ nEnd' = nEnd
          ELSE BeyondStack(globalCount', sGroups') =
                  TallySum(BeyondStack(globalCount, sGroups),
                           IF AssertionStep /\ sGroups = << >>
                           THEN Tally(ZeroCounter, AssertionPred)
                           ELSE IF nEnd' = nEnd + 1 /\ sGroups' = << >>
                                THEN ret'[1].count
                                ELSE ZeroCounter)]_vars

\* A failure was recorded with no group open, a first group was ended without
\* a failure, and a second group is open with one passed assertion.
C31_Witness ==
    /\ globalCount = [success |-> 2, failure |-> 1]
    /\ nBegin = 2
    /\ nEnd = 1
    /\ groupGlobalCount = [success |-> 1, failure |-> 0]
    /\ Len(sGroups) = 1
    /\ sGroups[1].count = [success |-> 1, failure |-> 0]
    /\ BeyondStack(globalCount, sGroups) = [success |-> 1, failure |-> 1]

\* C32: without exit-on-failure, Sa::UTH::exit tells whether an assertion
\* failed: exit = EXIT_FAILURE iff Intl::globalCount.failure > 0, and
\* Group::globalCount holds a failed group only if exit = EXIT_FAILURE.
C32_ExitIffFailureCounted ==
    ~build.exitOnFailure =>
        /\ exit \in {EXIT_SUCCESS, EXIT_FAILURE}
        /\ exit = EXIT_FAILURE <=> globalCount.failure > 0
        /\ groupGlobalCount.failure > 0 => exit = EXIT_FAILURE

\* A silent run (verbosity None, logs off): one group was ended with a
\* failure, another without, and exit is EXIT_FAILURE.
C32_Witness ==
    /\ ~build.exitOnFailure
    /\ verbosity = None
    /\ ~Intl_ShouldLog
    /\ groupGlobalCount = [success |-> 1, failure |-> 1]
    /\ globalCount.failure = 1
    /\ exit = EXIT_FAILURE

\* C34: the group callbacks are gated by nothing but their own slot.  Every
\* Group::Begin calls GroupBeginCB exactly once when it is set and every
\* Group::End calls GroupEndCB exactly once when it is set, whatever the
\* verbosity and the log toggles are; the built-in group lines are written
\* iff their flag (GroupStart, GroupExit) is set and a log is on; and no other
\* operation calls a group callback or writes a group line.
C34_GroupCallbacksUngated ==
    /\ [][nBegin' = nBegin + 1 =>
            /\ Cardinality(Calls(out', {"GroupBeginCB"}))
                  = (IF "GroupBeginCB" \in callbacks THEN 1 ELSE 0)
            /\ Cardinality(Calls(out', {"BeginLog"}))
                  = (IF HasFlag(verbosity, GroupStart) /\ (bCslLog \/ bFileLog)
                     THEN 1 ELSE 0)
            /\ Calls(out', {"GroupEndCB", "EndLog"}) = {}]_vars
    /\ [][nEnd' = nEnd + 1 =>
            /\ Cardinality(Calls(out', {"GroupEndCB"}))
                  = (IF "GroupEndCB" \in callbacks THEN 1 ELSE 0)
            /\ Cardinality(Calls(out', {"EndLog"}))
                  = (IF HasFlag(verbosity, GroupExit) /\ (bCslLog \/ bFileLog)
                     THEN 1 ELSE 0)
            /\ Calls(out', {"GroupBeginCB", "BeginLog"}) = {}]_vars
    /\ [][(nBegin' = nBegin /\ nEnd' = nEnd) =>
            Calls(out', {"GroupBeginCB", "BeginLog", "GroupEndCB", "EndLog"}) = {}]_vars

\* With verbosity None and both logs off, a group was begun: GroupBeginCB
\* was called and nothing else was emitted.
C34_Witness ==
    /\ verbosity = None
    /\ ~bCslLog
    /\ ~bFileLog
    /\ nBegin = 1
    /\ nEnd = 0
    /\ out = << Ev("GroupBeginCB", 0, GroupName(1)) >>

\* C36: the run summary Intl::Exit writes holds the group tally (" in <count>
\* groups") iff the GroupCount flag is set and at least one group was ended
\* during the run.
C36_GroupTallyInSummary ==
    (pc = "exited" /\ (bCslLog \/ bFileLog)) =>
        /\ Len(out) = 1
        /\ out[1].sink = "ExitLog"
        /\ out[1].text = "run in groups"
              <=> (HasFlag(verbosity, GroupCount) /\ Counter_Total(groupGlobalCount) > 0)

\* C37: Intl::Exit sets bCslLog and bFileLog back to the defaults of the
\* build and writes the run summary by them, not by the toggles the program
\* left; it changes no counter, no group and not Sa::UTH::exit; and it returns
\* Sa::UTH::exit, which it leaves as it was, so that a second call returns
\* the same value.
C37_ExitFrame ==
    [][(pc = "run" /\ pc' = "exited") =>
        /\ bCslLog' = build.dfltCslLog
        /\ bFileLog' = build.dfltFileLog
        /\ Calls(out', {"ExitLog"}) # {} <=> (build.dfltCslLog \/ build.dfltFileLog)
        /\ Cardinality(Calls(out', {"ExitLog"})) = Len(out')
        /\ Len(out') <= 1
        /\ UNCHANGED << globalCount, groupGlobalCount, sGroups, exit, verbosity,
                        callbacks, build >>
        /\ exitRet' = exit
        /\ exitRet' = exit']_vars

\* Exit returned EXIT_FAILURE with a group still open, in a build whose
\* default logs are on: the summary was written and the toggles are the
\* defaults.
C37_Witness ==
    /\ pc = "exited"
    /\ build.dfltCslLog
    /\ build.dfltFileLog
    /\ bCslLog
    /\ bFileLog
    /\ Called("ExitLog")
    /\ sGroups # << >>
    /\ exitRet = EXIT_FAILURE
    /\ exit = EXIT_FAILURE

\* ========================================================================
\* Properties of Counter, checked under SpecCounter.
\* ========================================================================

\* C9: Counter::IsEmpty() returns true iff nothing was recorded in the
\* counter, that is iff success = 0 and failure = 0.
C9_IsEmptyIffNothingRecorded ==
    res.op = "IsEmpty" =>
        (res.value <=> (arg.a.success = 0 /\ arg.a.failure = 0))

\* C10: operator+= adds component-wise; it is commutative and associative and
\* {0,0} is its identity on either side.
C10_CounterMergeLaws ==
    res.op = "+=" =>
        /\ res.ab.success = arg.a.success + arg.b.success
        /\ res.ab.failure = arg.a.failure + arg.b.failure
        /\ res.ab = res.ba
        /\ res.ab_c = res.a_bc
        /\ res.a0 = arg.a
        /\ res.za = arg.a

\* Three different counters with non-zero fields were merged.
C10_Witness ==
    /\ res.op = "+="
    /\ arg.a = [success |-> 1, failure |-> 2]
    /\ arg.b = [success |-> 2, failure |-> 0]
    /\ arg.c = [success |-> 0, failure |-> 1]
    /\ res.ab_c = [success |-> 3, failure |-> 3]


\* ========================================================================
\* Properties of the Equals helpers, checked under SpecEquals.
\* ========================================================================

\* C15: epsilon equality is a strict threshold: Equals(lhs, rhs, epsilon) is
\* true iff |lhs - rhs| < epsilon; so Equals(x, x + epsilon, epsilon) is false,
\* Equals(x, x, epsilon) is true for every positive epsilon and false for
\* epsilon <= 0.
C15_EpsilonStrictThreshold ==
    res.op = "Equals_Epsilon" =>
        /\ res.value <=> (\/ (arg.lhs >= arg.rhs /\ arg.lhs - arg.rhs < arg.epsilon)
                          \/ (arg.lhs < arg.rhs /\ arg.rhs - arg.lhs < arg.epsilon))
        /\ arg.rhs = arg.lhs + arg.epsilon => ~res.value
        /\ (arg.rhs = arg.lhs /\ arg.epsilon > 0) => res.value
        /\ (arg.rhs = arg.lhs /\ arg.epsilon <= 0) => ~res.value

\* Equals(0, 2, 2) was computed, rhs lying on the threshold, and is false.
C15_Witness ==
    /\ res.op = "Equals_Epsilon"
    /\ arg.lhs = 0
    /\ arg.rhs = 2
    /\ arg.epsilon = 2
    /\ ~res.value

\* C16: the tab Equals, exact or with epsilon, is true iff every index below
\* size passes the scalar Equals; the elements from size on are not read, so
\* they have no part in the result; size 0 gives true; and the scan reads the
\* indices up to the first mismatch and none after it.
C16_TabEqualsElementWise ==
    res.op \in {"Equals_Tab", "Equals_Tab_Epsilon"} =>
        LET Same(i) == IF res.op = "Equals_Tab"
                       THEN arg.lhs[i] = arg.rhs[i]
                       ELSE \/ (arg.lhs[i] >= arg.rhs[i]
                                /\ arg.lhs[i] - arg.rhs[i] < arg.epsilon)
                            \/ (arg.lhs[i] < arg.rhs[i]
                                /\ arg.rhs[i] - arg.lhs[i] < arg.epsilon)
        IN /\ res.value <=> (\A i \in 0..(arg.size - 1) : Same(i))
           /\ \A i \in res.read : i < arg.size
           /\ arg.size = 0 => res.value
           /\ \A i \in res.read : \A j \in 0..(i - 1) : j \in res.read /\ Same(j)
           /\ res.value => res.read = 0..(arg.size - 1)
           /\ ~res.value => \E i \in res.read : ~Same(i)

\* Two tabs of three elements that differ at index 1 and at index 2 were
\* compared over size 3: false, index 2 not read.
C16_Witness ==
    /\ res.op = "Equals_Tab"
    /\ arg.size = 3
    /\ arg.lhs[0] = arg.rhs[0]
    /\ arg.lhs[1] # arg.rhs[1]
    /\ arg.lhs[2] # arg.rhs[2]
    /\ ~res.value
    /\ res.read = {0, 1}

\* ========================================================================
\* Properties of the params log, checked under SpecParam.
\* ========================================================================

\* The entries of kind k that Param::Log wrote for the Param named n.
EntriesOf(n, k) == { i \in 1..Len(res.lines) : res.lines[i].of = n /\ res.lines[i].kind = k }

\* C27 (SpecParam): with a log on, Param::Log writes the name line of a
\* parameter iff the ParamsName flag is set, and for every parameter exactly
\* one entry that is its value, or the '-No debug string-' warning when
\* its value string is empty; so the value-or-warning entries are as many as
\* the parameters, in the order of the parameters.
C27_ParamsLogEntries ==
    (res.op = "Param::Log" /\ Intl_ShouldLog) =>
        /\ \A i \in 1..Len(res.params) :
              LET p == res.params[i]
              IN /\ Cardinality(EntriesOf(p.name, "name"))
                      = (IF HasFlag(verbosity, ParamsName) THEN 1 ELSE 0)
                 /\ Cardinality(EntriesOf(p.name, "warning"))
                      = (IF p.value = "" THEN 1 ELSE 0)
                 /\ Cardinality(EntriesOf(p.name, "value"))
                      = (IF p.value = "" THEN 0 ELSE 1)
                 /\ \A j \in EntriesOf(p.name, "value") : res.lines[j].text = p.value
        /\ Len(res.params) = Len(arg.args)
        /\ Len(SelectSeq(res.lines, LAMBDA l : l.kind \in {"value", "warning"}))
              = Len(arg.args)
        /\ \A i \in 1..Len(res.lines) : \A j \in 1..Len(res.lines) :
              (i < j /\ res.lines[i].of = res.lines[j].of) =>
                  (res.lines[i].kind = "name" /\ j = i + 1)

\* Two parameters without names: a type with no string conversion, logged as
\* the warning, then an arithmetic value.
C27_Witness ==
    /\ res.op = "Param::Log"
    /\ Intl_ShouldLog
    /\ ~HasFlag(verbosity, ParamsName)
    /\ Len(arg.args) = 2
    /\ arg.args[1].type = "other"
    /\ arg.args[2].type = "arithmetic"
    /\ res.lines = << [kind |-> "warning", of |-> "p1", text |-> "-No debug string-"],
                      [kind |-> "value", of |-> "p2", text |-> "text"] >>

\* ========================================================================
\* Properties of Intl::Logger, checked under SpecLogger.
\* ========================================================================

\* C28 (SpecLogger): the log file is opened once, by the constructor of
\* Logger::instance before main runs a test; it stays open while main runs;
\* and it is closed once when the process ends, whether main returned
\* through Intl::Exit or ::exit(EXIT_FAILURE) ended the run in the
\* exit-on-failure build: a process that has left main can always destroy
\* the instance, and an ended process has one open and one close.
C28_LogFileOpenedAndClosedOnce ==
    /\ res.opens <= 1
    /\ res.closes <= 1
    /\ res.op = "static-init" =>
          (res.opens = 0 /\ recorded = ZeroCounter /\ pc = "run")
    /\ res.op = "main" => (res.opens = 1 /\ res.closes = 0 /\ res.is_open)
    /\ (res.op = "main" /\ pc \in {"exited", "aborted"}) => ENABLED Logger_Dtor
    /\ res.op = "ended" =>
          (res.opens = 1 /\ res.closes = 1 /\ ~res.is_open
           /\ pc \in {"exited", "aborted"})

\* The exit-on-failure build ended the run with ::exit at the first failed
\* assertion, and the file was closed.
C28_Witness ==
    /\ res.op = "ended"
    /\ pc = "aborted"
    /\ build.exitOnFailure
    /\ recorded.failure = 1
    /\ res.opens = 1
    /\ res.closes = 1

\* ========================================================================
\* Properties of concurrent recording, checked under SpecThreads.
\* ========================================================================

\* Every thread is between two assertions.
ThreadsIdle == \A t \in Threads : res.tpc[t] = "idle"

\* C29 (SpecThreads): when the caller serializes the assertions of its
\* threads, no update is lost: between assertions Intl::globalCount and the
\* count of the open group hold every assertion recorded.  (Without the
\* serialization the lost update is reachable: C29_Witness.)
C29_SerializedRecordingLosesNothing ==
    (res.serialized /\ ThreadsIdle) =>
        /\ globalCount = recorded
        /\ sGroups # << >> =>
              /\ StackTop(sGroups).count = recorded
              /\ StackTop(sGroups).localExit = EXIT_FAILURE <=> recorded.failure > 0

\* Two threads recorded without serialization and an update was lost:
\* Intl::globalCount.Total() and the open group's count are below the number
\* of assertions recorded.
C29_Witness ==
    /\ ~res.serialized
    /\ ThreadsIdle
    /\ Counter_Total(recorded) = 2
    /\ Counter_Total(globalCount) < Counter_Total(recorded)
    /\ sGroups # << >>
    /\ Counter_Total(StackTop(sGroups).count) < Counter_Total(recorded)

\* ========================================================================
\* Properties of the order of Group::Begin and Group::End, checked under
\* SpecGroupSteps.
\* ========================================================================

\* C35 (SpecGroupSteps): GroupBeginCB runs after the push: the stack is one
\* deeper than when Begin was called and the new, empty group is its top.
\* GroupEndCB runs after the pop and the spread and before the tally: the
\* stack is one shallower, the parent holds its count plus the ended group's
\* and has failed if either had, and Group::globalCount is as it was when End
\* was called, its total the number of groups ended before.
C35_GroupCallbackOrder ==
    /\ (res.op = "Begin" /\ res.at = "GroupBeginCB") =>
          /\ Len(sGroups) = res.depth + 1
          /\ StackTop(sGroups).name = res.name
          /\ StackTop(sGroups).count = ZeroCounter
    /\ (res.op = "End" /\ res.at = "GroupEndCB") =>
          /\ Len(sGroups) = res.depth - 1
          /\ res.parent # << >> =>
                /\ StackTop(sGroups).count
                      = TallySum(res.parent[1].count, res.group[1].count)
                /\ StackTop(sGroups).localExit = EXIT_FAILURE
                      <=> (\/ res.parent[1].localExit = EXIT_FAILURE
                           \/ res.group[1].localExit = EXIT_FAILURE)
          /\ groupGlobalCount = res.tally
          /\ Counter_Total(groupGlobalCount) = nEnd

\* GroupEndCB is about to run for a nested group with a failed assertion, the
\* second group to end: the parent already holds the failure and
\* Group::globalCount still counts one group.
C35_Witness ==
    /\ res.op = "End"
    /\ res.at = "GroupEndCB"
    /\ "GroupEndCB" \in callbacks
    /\ res.group[1].count = [success |-> 0, failure |-> 1]
    /\ Len(sGroups) = 1
    /\ sGroups[1].count.failure = 1
    /\ sGroups[1].localExit = EXIT_FAILURE
    /\ nEnd = 1
    /\ Counter_Total(groupGlobalCount) = 1

\* ========================================================================
\* Properties of Intl::GenerateParamStr, checked under SpecNames.
\* ========================================================================

\* C38 (SpecNames): GenerateParamStr gives one Param per value, in the order
\* of the values; the name of the i-th Param is the i-th token of the names
\* string, whether a space follows the commas or not, and its value is
\* ToString of the i-th value.
C38_ParamNamesMatchArguments ==
    res.op = "GenerateParamStr" =>
        /\ Len(res.params) = Len(arg.values)
        /\ \A i \in 1..Len(arg.values) :
              /\ res.params[i].name = arg.tokens[i]
              /\ res.params[i].value = UTH_ToString(arg.values[i])

\* ========================================================================
\* Properties of SA-UnitTestHelper.hpp, checked under SpecSa.
\* ========================================================================

C3_SaExitFailureIfAnyFailed ==
    /\ recorded.failure > 0 => exit = EXIT_FAILURE
    /\ (pc = "exited" /\ recorded.failure > 0) => exitRet = EXIT_FAILURE

====
